---- MODULE Spec2Model ----
(***************************************************************************)
(* tablelinker: the convertor execution model.                             *)
(*                                                                         *)
(* One pipeline step is modelled: an ArrayInputCollection holding a        *)
(* header row and data rows, a Context built from a convertor class and    *)
(* the caller's parameter map, and the driver Convertor.process running    *)
(* preproc, process_header and process_record over the input.  Three       *)
(* convertor classes are modelled: NoopConvertor (the base behaviour),     *)
(* AttrCopyConvertor (InputOutputConvertor, single output column) and      *)
(* ToMunicipalityConvertor (InputOutputsConvertor, several output          *)
(* columns, behind the check_jageocoder decorator).                        *)
(*                                                                         *)
(* Python lists are TLA+ sequences; a Python index i is position i + 1.    *)
(***************************************************************************)
EXTENDS Integers, Sequences, FiniteSets, TLC

\* ------------------------------------------------------------------ bounds
MaxCols == 3        \* columns of the header row
MaxRows == 2        \* data rows of the input
MaxPreRead == 1     \* rows the caller reads from the input before the step
MaxLen == 3         \* length of the sequence handed to reorder on its own
MaxAgain == 1       \* times a step is applied again to its own output

\* Python's None, for optional integers and optional strings.
None == -1000
NoneStr == "None"

Min(a, b) == IF a < b THEN a ELSE b
Max(a, b) == IF a > b THEN a ELSE b

\* ------------------------------------------------------- Python list idiom
\* list[i], negative i counting from the end.
PyGet(s, i) == IF i < 0 THEN s[Len(s) + i + 1] ELSE s[i + 1]

\* list.pop(i) / del list[i]: the list without the element at i.
PyPop(s, i) ==
    LET k == IF i < 0 THEN Len(s) + i + 1 ELSE i + 1
    IN  SubSeq(s, 1, k - 1) \o SubSeq(s, k + 1, Len(s))

\* list.insert(i, v) for i >= 0: an index past the end appends.
PyInsert(s, i, v) ==
    LET k == Min(i, Len(s))
    IN  SubSeq(s, 1, k) \o <<v>> \o SubSeq(s, k + 1, Len(s))

\* The bound of a slice s[:i] / s[i:], clamped as Python clamps it.
PyClamp(s, i) == IF i < 0 THEN Max(Len(s) + i, 0) ELSE Min(i, Len(s))
PySliceTo(s, i) == SubSeq(s, 1, PyClamp(s, i))
PySliceFrom(s, i) == SubSeq(s, PyClamp(s, i) + 1, Len(s))

\* v in list, and list.index(v): the first position holding v.
PyIn(s, v) == \E k \in 1..Len(s) : s[k] = v
PyIndexLast(s, v) ==
    (CHOOSE k \in 1..Len(s) : s[k] = v /\ \A j \in (k + 1)..Len(s) : s[j] # v) - 1
PyIndex(s, v) ==
    (CHOOSE k \in 1..Len(s) : s[k] = v /\ \A j \in 1..(k - 1) : s[j] # v) - 1

\* ------------------------------------------ InputOutputConvertor.reorder
ReorderNoShift(original, del_idx, insert_idx, insert_value) ==
    LET new_list == IF del_idx # None THEN PyPop(original, del_idx) ELSE original
    IN  IF insert_idx < 0 THEN Append(new_list, insert_value)
        ELSE PyInsert(new_list, insert_idx, insert_value)

Reorder(original, del_idx, insert_idx, insert_value) ==
    LET new_list == IF del_idx # None THEN PyPop(original, del_idx) ELSE original
        idx == IF del_idx # None /\ del_idx < insert_idx
               THEN insert_idx - 1 ELSE insert_idx
    IN  IF idx < 0 THEN Append(new_list, insert_value)
        ELSE PyInsert(new_list, idx, insert_value)

\* ------------------------------------------------ IOsConvertor preproc loop
\* InputOutputsConvertor.preproc, the loop over del_col_indexes: the list is
\* adjusted in place while it is enumerated, so slot i is read after the
\* deletions before it have been applied to it.
RECURSIVE AdjustNoShift(_, _, _)
AdjustNoShift(dels, out_idx, i) ==
    IF i > Len(dels) THEN [del_col_indexes |-> dels, output_col_idx |-> out_idx]
    ELSE IF dels[i] = None THEN AdjustNoShift(dels, out_idx, i + 1)
    ELSE AdjustNoShift(dels,
                       IF dels[i] < out_idx THEN out_idx - 1 ELSE out_idx,
                       i + 1)

RECURSIVE AdjustDeletes(_, _, _)
AdjustDeletes(dels, out_idx, i) ==
    IF i > Len(dels) THEN [del_col_indexes |-> dels, output_col_idx |-> out_idx]
    ELSE IF dels[i] = None THEN AdjustDeletes(dels, out_idx, i + 1)
    ELSE LET del_index == dels[i]
             out2 == IF del_index < out_idx THEN out_idx - 1 ELSE out_idx
             dels2 == [k \in 1..Len(dels) |->
                          IF k > i /\ dels[k] # None /\ del_index < dels[k]
                          THEN dels[k] - 1 ELSE dels[k]]
         IN  AdjustDeletes(dels2, out2, i + 1)

\* ----------------------------------------- InputOutputsConvertor.reorder
\* The deletions one after the other; del of an index past the end raises
\* IndexError (ok = FALSE).
RECURSIVE DeleteAll(_, _)
DeleteAll(lst, idxs) ==
    IF idxs = <<>> THEN [ok |-> TRUE, list |-> lst]
    ELSE IF Head(idxs) = None THEN DeleteAll(lst, Tail(idxs))
    ELSE IF Head(idxs) >= Len(lst) \/ Head(idxs) < 0 - Len(lst)
         THEN [ok |-> FALSE, list |-> lst]
    ELSE DeleteAll(PyPop(lst, Head(idxs)), Tail(idxs))

IOsReorder(original, delete_idxs, insert_idx, insert_values) ==
    LET d == DeleteAll(original, delete_idxs)
    IN  IF ~d.ok THEN d
        ELSE [ok |-> TRUE,
              list |-> PySliceTo(d.list, insert_idx) \o insert_values
                       \o PySliceFrom(d.list, insert_idx)]

\* ------------------------------------------------------ column references
\* A column reference as the caller writes it: an integer or a string.
IntRef(n) == [t |-> "int", n |-> n, s |-> ""]
StrRef(s) == [t |-> "str", n |-> 0, s |-> s]
NoRef == [t |-> "none", n |-> 0, s |-> ""]

\* re.match(r'^\d+$', value) and int(value), on the strings of the model.
StrToInt == ("0" :> 0) @@ ("1" :> 1) @@ ("7" :> 7)
IsDigits(s) == s \in DOMAIN StrToInt

\* AttributeParam.get_column_number: raised = TRUE stands for ValueError.
Resolved(v) == [raised |-> FALSE, value |-> v]
Raised == [raised |-> TRUE, value |-> None]

GetColumnNumberFirst(value, headers, allow_error) ==
    LET r == IF value.t = "str"
             THEN IF PyIn(headers, value.s) THEN Resolved(PyIndex(headers, value.s))
                  ELSE IF IsDigits(value.s) THEN Resolved(StrToInt[value.s])
                  ELSE IF allow_error THEN Resolved(0) ELSE Raised
             ELSE Resolved(value.n)
    IN  IF r.raised THEN r
        ELSE IF r.value < -1 \/ r.value >= Len(headers)
             THEN IF allow_error THEN Resolved(0) ELSE Raised
        ELSE r

GetColumnNumber(value, headers, allow_error) ==
    LET r == IF value.t = "str"
             THEN IF PyIn(headers, value.s) THEN Resolved(PyIndex(headers, value.s))
                  ELSE IF IsDigits(value.s) THEN Resolved(StrToInt[value.s])
                  ELSE IF allow_error THEN Resolved(-1) ELSE Raised
             ELSE Resolved(value.n)
    IN  IF r.raised THEN r
        ELSE IF r.value < -1 \/ r.value >= Len(headers)
             THEN IF allow_error THEN Resolved(-1) ELSE Raised
        ELSE r

\* ------------------------------------------------------------------ state
VARIABLES
    array,       \* ArrayInputCollection._array: the header row, then data rows
    current,     \* ArrayInputCollection._current: the read position
    callerReads, \* rows the caller has read before the step
    kind,        \* the convertor class of the step
    params,      \* Context._convertor_params, the caller's parameter map
    geocoderOk,  \* whether initialize_jageocoder() succeeds
    warned,      \* parameter keys Context.__init__ logged a warning about
    data,        \* Context._data: what set_data stored
    conv,        \* the convertor instance's attributes
    out,         \* ArrayOutputCollection._array
    pc,          \* position of the step
    error,       \* the exception that ended the step, "" if none
    failedIn,    \* where it was raised: "init", "preproc", "header", "record"
    probe,       \* a get_param(name) call made after the step, and its outcome
    hdrGiven,    \* the rows handed to process_header
    checked,     \* input positions handed to check_record, in call order
    processed,   \* input positions handed to process_record, in call order
    outSrc,      \* for each row of out, the input position it comes from
    called,      \* the process_convertor calls: input position and return value
    fs,          \* Table.convert: the result file, the open collections, the caller
    rS, rD, rI, rOut, rpc,  \* reorder called on its own: arguments and result
    registry,    \* core.convertors CONVERTORS and CONVERTOR_DICT, extras.__all__
    mapper,      \* an ItemsPair, the caller's threshold and what the caller made
    dates,       \* a cell given to date_extract or datetime_extract, and the result
    chain        \* the outputs of the earlier steps when a step is applied again

vars == <<array, current, callerReads, kind, params, geocoderOk, warned, data,
          conv, out, pc, error, failedIn, probe, hdrGiven, checked, processed,
          outSrc, called, fs, rS, rD, rI, rOut, rpc, registry, mapper,
          dates, chain>>

stepVars == <<array, current, callerReads, kind, params, geocoderOk, warned,
              data, conv, out, pc, error, failedIn, probe, hdrGiven, checked,
              processed, outSrc, called, fs>>
rvars == <<rS, rD, rI, rOut, rpc>>
libVars == <<registry, mapper, dates, chain>>

\* ----------------------------------------------------------------- inputs
SeqsUpTo(S, n) == UNION {[1..k -> S] : k \in 0..n}

\* Header names; a header may repeat a name.  Headers are taken up to
\* renaming: the first column is "a", and a column repeats an earlier name
\* or takes the next unused one.
HdrNames == <<"a", "b", "c", "d", "e">>
IsCanonical(h) ==
    \A i \in 1..Len(h) :
        LET used == {h[j] : j \in 1..(i - 1)}
        IN  h[i] \in used \/ h[i] = HdrNames[Cardinality(used) + 1]
Headers ==
    {h \in SeqsUpTo({HdrNames[k] : k \in 1..Len(HdrNames)}, MaxCols) :
        Len(h) >= 1 /\ IsCanonical(h)}

\* The field at data row r, column c.
CellTab == << <<"r1c1", "r1c2", "r1c3", "r1c4", "r1c5", "r1c6">>,
              <<"r2c1", "r2c2", "r2c3", "r2c4", "r2c5", "r2c6">>,
              <<"r3c1", "r3c2", "r3c3", "r3c4", "r3c5", "r3c6">>,
              <<"r4c1", "r4c2", "r4c3", "r4c4", "r4c5", "r4c6">> >>
DataRow(r, len) == [c \in 1..len |-> CellTab[r][c]]

\* A malformed row is one field short (odd rows) or one field long (even rows).
BadLen(r, n) == IF r % 2 = 1 THEN n - 1 ELSE n + 1
Tables(h) ==
    UNION {
        {<<h>> \o [r \in 1..k |-> DataRow(r, IF bad[r] THEN BadLen(r, Len(h)) ELSE Len(h))] :
            bad \in [1..k -> BOOLEAN]} :
        k \in 0..MaxRows}
Arrays == UNION {Tables(h) : h \in Headers}

Kinds == {"noop", "acopy", "geocoder_municipality"}

\* The parameters each convertor class declares (its meta().params), and
\* those declared required.
IOParams == {"input_col_idx", "output_col_name", "output_col_idx", "overwrite"}
Declared(k) ==
    CASE k = "noop" -> {}
      [] k = "acopy" -> IOParams
      [] k = "generate_pk" ->
            IOParams \cup {"length", "error_if_not_unique", "skip_if_not_unique"}
      [] k = "split_row" -> {"input_col_idx", "separator"}
      [] k \in {"select_row_match", "select_row_contains", "select_row_pattern"} ->
            {"input_col_idx", "query"}
      [] k = "calc" ->
            {"input_col_idx1", "input_col_idx2", "output_col_name", "operator",
             "delete_col"}
      [] k = "rename_col" -> {"input_col_idx", "output_col_name"}
      [] k = "move_col" -> {"input_col_idx", "output_col_idx"}
      [] k = "split_col" ->
            {"input_col_idx", "output_col_names", "output_col_idx", "separator"}
      [] k = "geocoder_municipality" ->
            {"input_col_idx", "output_col_names", "output_col_idx", "overwrite",
             "within", "within_col_idxs", "default"}
Required(k) ==
    CASE k = "noop" -> {}
      [] k \in {"acopy", "geocoder_municipality", "generate_pk"} -> {"input_col_idx"}
      [] k = "split_row" -> {"input_col_idx", "separator"}
      [] k \in {"select_row_match", "select_row_contains", "select_row_pattern"} ->
            {"input_col_idx", "query"}
      [] k = "calc" -> {"input_col_idx1", "input_col_idx2"}
      [] k = "rename_col" -> {"input_col_idx", "output_col_name"}
      [] k = "move_col" -> {"input_col_idx"}
      [] k = "split_col" -> {"input_col_idx", "output_col_names", "separator"}

\* The caller's parameter map: the keys supplied and their values; a value
\* whose key is not supplied is a placeholder nothing reads.
NoMore ==
    [query |-> "", separator |-> "", input_col_idx1 |-> NoRef,
     input_col_idx2 |-> NoRef, operator |-> "", delete_col |-> FALSE,
     error_if_not_unique |-> TRUE, skip_if_not_unique |-> FALSE]
ParamMap(keys, inRef, outName, outRef, outNames, ow) ==
    [keys |-> keys, more |-> NoMore,
     input_col_idx |-> IF "input_col_idx" \in keys THEN inRef ELSE NoRef,
     output_col_name |-> IF "output_col_name" \in keys THEN outName ELSE NoneStr,
     output_col_idx |-> IF "output_col_idx" \in keys THEN outRef ELSE NoRef,
     output_col_names |-> IF "output_col_names" \in keys THEN outNames ELSE <<>>,
     overwrite |-> IF "overwrite" \in keys THEN ow ELSE TRUE]

InRefs == {IntRef(-1), IntRef(1), IntRef(MaxCols),
           StrRef("b"), StrRef("zz"), StrRef("1")}
OutRefs == {IntRef(0), IntRef(MaxCols + 6), StrRef("b"), StrRef("zz"), StrRef("1")}
OutNames == {"a", "n"}
OutNameLists == SeqsUpTo({"a", "b", "n"}, 2)
OutsRefs == {IntRef(1), IntRef(MaxCols + 6), StrRef("zz")}

\* ToMunicipalityConvertor's "default" parameter, as the caller supplies it.
DefaultParam == <<"m1", "m2">>

NoConv ==
    [headers |-> <<>>, num_of_columns |-> None, input_col_idx |-> None,
     output_col_name |-> NoneStr, output_col_idx |-> None, del_col |-> None,
     overwrite |-> TRUE, old_col_indexes |-> <<>>, del_col_indexes |-> <<>>,
     output_col_names |-> <<>>, default |-> <<>>,
     key_list |-> {}, error_if_not_unique |-> TRUE, skip_if_not_unique |-> FALSE,
     re_separator |-> "", re_pattern |-> "",
     attr1 |-> None, attr2 |-> None, delete_col |-> FALSE, operator |-> ""]
NoData == [headers |-> <<>>, num_of_columns |-> None]
NoProbe == [name |-> "", raised |-> FALSE]

\* No Table.convert call around the step: the Context is used directly, over
\* array collections whose open and close do nothing.
NoTable ==
    [at |-> "direct", named |-> FALSE, file |-> "none", inOpen |-> FALSE,
     outOpen |-> FALSE, is_tempfile |-> FALSE]

\* ------------------------------------------------------ Context.get_param
\* The lookup Context.get_param makes before it reads the value: ValueError
\* for a name the convertor does not declare, and for a required parameter
\* the caller did not supply.
GetParamRaisesUnlessSupplied(k, p, name) ==
    \/ name \notin Declared(k) /\ name \notin p.keys
    \/ name \in Required(k) /\ name \notin p.keys

GetParamRaises(k, p, name) ==
    \/ name \notin Declared(k)
    \/ name \in Required(k) /\ name \notin p.keys

\* InputAttributeParam.get_value through get_param("input_col_idx").
GetInputColIdx(k, p, headers) ==
    IF GetParamRaises(k, p, "input_col_idx") THEN Raised
    ELSE IF "input_col_idx" \notin p.keys THEN Resolved(None)
    ELSE GetColumnNumber(p.input_col_idx, headers, FALSE)

\* OutputAttributeParam.get_value through get_param("output_col_idx").
GetOutputColIdx(k, p, headers) ==
    IF GetParamRaises(k, p, "output_col_idx") THEN Raised
    ELSE IF "output_col_idx" \notin p.keys THEN Resolved(None)
    ELSE GetColumnNumber(p.output_col_idx, headers, TRUE)

\* BooleanParam "overwrite": default True in InputOutputConvertor, False in
\* InputOutputsConvertor.
GetOverwrite(k, p) ==
    IF "overwrite" \in p.keys THEN p.overwrite ELSE k \in {"acopy", "generate_pk"}

\* ---------------------------------------------------------------- preproc
\* What a preproc call leaves behind: its return value ("None", "True",
\* "False") or "raise" with the exception, the convertor's attributes, the
\* context data and the read position.
PreprocResult(ret, err, c, d, cur) ==
    [ret |-> ret, error |-> err, conv |-> c, data |-> d, current |-> cur]

\* Convertor.preproc: context.next() is ArrayInputCollection.next.
ConvertorPreproc(arr, cur) ==
    IF cur = Len(arr)
    THEN PreprocResult("raise", "StopIteration", NoConv, NoData, cur)
    ELSE LET headers == arr[cur + 1]
         IN  PreprocResult("None", "",
                 [NoConv EXCEPT !.headers = headers,
                                !.num_of_columns = Len(headers)],
                 [headers |-> headers, num_of_columns |-> Len(headers)],
                 cur + 1)

\* InputOutputConvertor.preproc.
IOPreproc(k, p, arr, cur) ==
    LET b == ConvertorPreproc(arr, cur)
        headers == b.conv.headers
        inp == GetInputColIdx(k, p, headers)
        name0 == p.output_col_name
        idx0 == GetOutputColIdx(k, p, headers).value
        ow0 == GetOverwrite(k, p)
        named == name0 # NoneStr
        exists == named /\ PyIn(headers, name0)
        name1 == IF named THEN name0 ELSE PyGet(headers, inp.value)
        del_col == IF ~named THEN inp.value
                   ELSE IF exists THEN PyIndex(headers, name0) ELSE None
        ow1 == IF named /\ ~exists THEN TRUE ELSE ow0
        idx1 == IF ~named /\ idx0 = None THEN inp.value ELSE idx0
        idx2 == IF idx1 = None THEN b.conv.num_of_columns ELSE idx1
    IN  IF b.ret = "raise" THEN b
        ELSE IF inp.raised THEN [b EXCEPT !.ret = "raise", !.error = "ValueError"]
        ELSE [b EXCEPT !.ret = "True",
                       !.conv = [b.conv EXCEPT !.input_col_idx = inp.value,
                                               !.output_col_name = name1,
                                               !.output_col_idx = idx2,
                                               !.del_col = del_col,
                                               !.overwrite = ow1]]

\* InputOutputsConvertor.preproc.
IOsPreproc(k, p, arr, cur) ==
    LET b == ConvertorPreproc(arr, cur)
        headers == b.conv.headers
        inp == GetInputColIdx(k, p, headers)
        idx0 == GetOutputColIdx(k, p, headers).value
        names == p.output_col_names
        old == [i \in 1..Len(names) |->
                   IF PyIn(headers, names[i]) THEN PyIndex(headers, names[i])
                   ELSE None]
        idx1 == IF idx0 = None \/ idx0 >= Len(headers) THEN Len(headers) ELSE idx0
        adj == AdjustDeletes(old, idx1, 1)
    IN  IF b.ret = "raise" THEN b
        ELSE IF inp.raised THEN [b EXCEPT !.ret = "raise", !.error = "ValueError"]
        ELSE [b EXCEPT !.ret = "True",
                       !.conv = [b.conv EXCEPT !.input_col_idx = inp.value,
                                               !.output_col_idx = adj.output_col_idx,
                                               !.output_col_names = names,
                                               !.old_col_indexes = old,
                                               !.del_col_indexes = adj.del_col_indexes]]

\* ToMunicipalityConvertor.preproc behind @check_jageocoder: False without
\* running when the geocoder is not available; one or two output names.
NormalizeDefault(d) == IF Len(d) < 2 THEN SubSeq(d \o d, 1, 2) ELSE SubSeq(d, 1, 2)
MunicipalityPreproc(k, p, arr, cur, geoOk) ==
    LET r == IOsPreproc(k, p, arr, cur)
        n == Len(r.conv.output_col_names)
    IN  IF ~geoOk THEN PreprocResult("False", "", NoConv, NoData, cur)
        ELSE IF r.ret = "raise" THEN r
        ELSE IF n # 1 /\ n # 2
             THEN [r EXCEPT !.ret = "raise", !.error = "ValueError"]
        ELSE [r EXCEPT !.ret = "None",
                       !.conv = [r.conv EXCEPT
                           !.default = PySliceTo(NormalizeDefault(DefaultParam), n)]]

\* ------------------------------------------------ values and text of cells
\* Python values other than strings that a cell of an array input may hold
\* (None is NoneStr).
PyFalse == "<False>"
PyZero == "<0>"

\* The characters of the strings the text convertors work on, and the
\* string of a character sequence.
Chars ==
    ("" :> <<>>) @@ ("p" :> <<"p">>) @@ ("q" :> <<"q">>) @@
    ("," :> <<",">>) @@ (";" :> <<";">>) @@
    ("p,q" :> <<"p", ",", "q">>) @@ ("q,p" :> <<"q", ",", "p">>) @@
    ("p," :> <<"p", ",">>)
StrOf(cs) == CHOOSE t \in DOMAIN Chars : Chars[t] = cs

\* str.startswith / re.match with a literal pattern, and the "in" of strings.
IsPrefix(q, cs) == Len(q) <= Len(cs) /\ SubSeq(cs, 1, Len(q)) = q
FindAt(q, cs, i) == i + Len(q) <= Len(cs) /\ SubSeq(cs, i + 1, i + Len(q)) = q
StrContains(query, value) ==
    \E i \in 0..Len(Chars[value]) : FindAt(Chars[query], Chars[value], i)
ReMatch(pattern, value) == IsPrefix(Chars[pattern], Chars[value])

\* re.split with a literal, non-empty separator: the pieces between
\* successive occurrences, left to right.
RECURSIVE SplitChars(_, _)
SplitChars(cs, sep) ==
    IF \A i \in 0..Len(cs) : ~FindAt(sep, cs, i) THEN <<cs>>
    ELSE LET k == CHOOSE i \in 0..Len(cs) :
                      FindAt(sep, cs, i) /\ \A j \in 0..(i - 1) : ~FindAt(sep, cs, j)
         IN  <<SubSeq(cs, 1, k)>> \o
             SplitChars(SubSeq(cs, k + Len(sep) + 1, Len(cs)), sep)
ReSplit(sep, value) ==
    LET pieces == SplitChars(Chars[value], Chars[sep])
    IN  [i \in 1..Len(pieces) |-> StrOf(pieces[i])]

\* Param.eval_number on the strings of the model, in halves (float("1") is
\* 2 halves), and the float a number of halves is.
HalfOf == ("0" :> 0) @@ ("1" :> 2) @@ ("2" :> 4)
IsNumber(val) == val \in DOMAIN HalfOf
FloatOf ==
    (0 :> "0.0") @@ (1 :> "0.5") @@ (2 :> "1.0") @@ (4 :> "2.0") @@
    (6 :> "3.0") @@ (8 :> "4.0")

\* UniqueKeyGenerator.generate_short_hash_string: a hash, so two seeds may
\* share a key.
Hash == ("s1" :> "k1") @@ ("s2" :> "k2") @@ ("s3" :> "k1")

\* ----------------------------------------- the row convertors: preproc
\* Convertor.preproc followed by get_param("input_col_idx").
WithInputCol(k, p, arr, cur) ==
    LET b == ConvertorPreproc(arr, cur)
        inp == GetInputColIdx(k, p, b.conv.headers)
    IN  IF b.ret = "raise" THEN b
        ELSE IF inp.raised THEN [b EXCEPT !.ret = "raise", !.error = "ValueError"]
        ELSE [b EXCEPT !.conv = [b.conv EXCEPT !.input_col_idx = inp.value]]

\* GeneratePkConvertor.preproc: the InputOutputConvertor preproc, whose
\* result it drops, then the flags and a fresh UniqueKeyGenerator.
GetFlag(p, name, default) ==
    IF name \in p.keys
    THEN IF name = "error_if_not_unique" THEN p.more.error_if_not_unique
         ELSE IF name = "skip_if_not_unique" THEN p.more.skip_if_not_unique
         ELSE p.more.delete_col
    ELSE default
GeneratePkPreproc(k, p, arr, cur) ==
    LET r == IOPreproc(k, p, arr, cur)
    IN  IF r.ret = "raise" THEN r
        ELSE [r EXCEPT !.ret = "None",
                       !.conv = [r.conv EXCEPT
                           !.error_if_not_unique = GetFlag(p, "error_if_not_unique", TRUE),
                           !.skip_if_not_unique = GetFlag(p, "skip_if_not_unique", FALSE),
                           !.key_list = {}]]

\* SplitRowConvertor.preproc: the separator is compiled before the input
\* column is resolved.
SplitRowPreproc(k, p, arr, cur) ==
    LET r == WithInputCol(k, p, arr, cur)
    IN  IF r.ret = "raise" THEN r
        ELSE [r EXCEPT !.conv = [r.conv EXCEPT !.re_separator = p.more.separator]]

\* PatternMatchSelectRowConvertor.preproc.
PatternPreproc(k, p, arr, cur) ==
    LET b == ConvertorPreproc(arr, cur)
    IN  IF b.ret = "raise" THEN b
        ELSE [b EXCEPT !.conv = [b.conv EXCEPT !.re_pattern = p.more.query]]

\* EnumsParam "operator": the member for a supplied value; when the key is
\* absent the default, which EnumsParam.__init__ stored as the plain string.
OperatorOf(p) ==
    IF "operator" \in p.keys
    THEN IF p.more.operator = "+" THEN "Calculation.Add" ELSE "Calculation.Div"
    ELSE "+"

\* "+".join of two header names.
PlusJoin(x, y) == x \o "+" \o y

\* CalcColConvertor.preproc.
CalcPreproc(k, p, arr, cur) ==
    LET b == ConvertorPreproc(arr, cur)
        headers == b.conv.headers
        a1 == GetColumnNumber(p.more.input_col_idx1, headers, FALSE)
        a2 == GetColumnNumber(p.more.input_col_idx2, headers, FALSE)
        name == IF "output_col_name" \in p.keys THEN p.output_col_name
                ELSE PlusJoin(PyGet(headers, a1.value), PyGet(headers, a2.value))
    IN  IF b.ret = "raise" THEN b
        ELSE IF a1.raised \/ a2.raised
             THEN [b EXCEPT !.ret = "raise", !.error = "ValueError"]
        ELSE [b EXCEPT !.conv = [b.conv EXCEPT
                           !.attr1 = a1.value,
                           !.attr2 = a2.value,
                           !.output_col_name = name,
                           !.delete_col = GetFlag(p, "delete_col", FALSE),
                           !.operator = OperatorOf(p)]]

\* CalcColConvertor.process_header.
CalcHeader(c, headers) ==
    LET h1 == IF c.delete_col THEN PyPop(headers, c.attr1) ELSE headers
        h2 == IF c.delete_col /\ c.attr1 # c.attr2 THEN PyPop(h1, c.attr2 - 1) ELSE h1
    IN  Append(h2, c.output_col_name)

\* list.insert(i, v) for any i: a negative i counts from the end and stops
\* at the front.
PyInsertAt(s, i, v) ==
    IF i < 0 THEN PyInsert(s, Max(Len(s) + i, 0), v) ELSE PyInsert(s, i, v)

\* list[i] = v, negative i counting from the end.
PySet(s, i, v) ==
    LET k == IF i < 0 THEN Len(s) + i + 1 ELSE i + 1
    IN  [s EXCEPT ![k] = v]

\* The slices s[0:i] and s[i:] when i may be None: a None bound is no bound.
PySliceToOpt(s, i) == IF i = None THEN s ELSE PySliceTo(s, i)
PySliceFromOpt(s, i) == IF i = None THEN s ELSE PySliceFrom(s, i)

\* Pattern.split(string, maxsplit): at most maxsplit splits, left to right;
\* maxsplit = 0 is no limit and a negative maxsplit is no split at all.
RECURSIVE SplitCharsUpTo(_, _, _)
SplitCharsUpTo(cs, sep, n) ==
    IF n = 0 \/ \A i \in 0..Len(cs) : ~FindAt(sep, cs, i) THEN <<cs>>
    ELSE LET k == CHOOSE i \in 0..Len(cs) :
                      FindAt(sep, cs, i) /\ \A j \in 0..(i - 1) : ~FindAt(sep, cs, j)
         IN  <<SubSeq(cs, 1, k)>> \o
             SplitCharsUpTo(SubSeq(cs, k + Len(sep) + 1, Len(cs)), sep, n - 1)
ReSplitMax(sep, value, maxsplit) ==
    LET pieces == IF maxsplit = 0 THEN SplitChars(Chars[value], Chars[sep])
                  ELSE SplitCharsUpTo(Chars[value], Chars[sep], Max(maxsplit, 0))
    IN  [i \in 1..Len(pieces) |-> StrOf(pieces[i])]

\* ----------------------------------------------- the column convertors
\* MoveColConvertor.preproc: "get_param(...) or len(self.headers)" takes the
\* number of columns for None and for 0 alike.
MoveColPreproc(k, p, arr, cur) ==
    LET r == WithInputCol(k, p, arr, cur)
        got == GetOutputColIdx(k, p, r.conv.headers)
        output_col_idx == IF got.value = None \/ got.value = 0
                          THEN Len(r.conv.headers) ELSE got.value
    IN  IF r.ret = "raise" THEN r
        ELSE [r EXCEPT !.conv = [r.conv EXCEPT
                 !.output_col_idx = IF output_col_idx > r.conv.input_col_idx
                                    THEN output_col_idx - 1 ELSE output_col_idx]]

\* MoveColConvertor.move_list.
MoveList(input_col_idx, output_col_idx, target_list) ==
    PyInsertAt(PyPop(target_list, input_col_idx), output_col_idx,
               PyGet(target_list, input_col_idx))

\* SplitColConvertor.preproc: the separator, the input column, the names,
\* and the output position, which stays None when it is not supplied.
SplitColPreproc(k, p, arr, cur) ==
    LET r == WithInputCol(k, p, arr, cur)
        got == GetOutputColIdx(k, p, r.conv.headers)
    IN  IF r.ret = "raise" THEN r
        ELSE [r EXCEPT !.conv = [r.conv EXCEPT
                 !.re_separator = p.more.separator,
                 !.output_col_names = p.output_col_names,
                 !.output_col_idx = got.value]]

\* SplitColConvertor.process_header.
SplitColHeader(c, headers) ==
    PySliceToOpt(headers, c.output_col_idx) \o c.output_col_names \o
    PySliceFromOpt(headers, c.output_col_idx)

\* SplitColConvertor.process_record.
SplitColRecord(c, record) ==
    LET original == PyGet(record, c.input_col_idx)
        splits == ReSplitMax(c.re_separator, original, Len(c.output_col_names) - 1)
    IN  PySliceToOpt(record, c.output_col_idx) \o splits \o
        PySliceFromOpt(record, c.output_col_idx)

\* A rename that makes room for the new name instead of replacing the old.
RenameColInsert(k, p, headers) ==
    LET inp == GetInputColIdx(k, p, headers)
    IN  IF inp.raised THEN [error |-> "ValueError", list |-> <<>>]
        ELSE [error |-> "",
              list |-> PyInsertAt(headers, inp.value, p.output_col_name)]

\* RenameColConvertor.process_header: both parameters are read here, so a
\* name the header does not hold raises ValueError at the header.
RenameColProcessHeader(k, p, headers) ==
    LET inp == GetInputColIdx(k, p, headers)
    IN  IF inp.raised THEN [error |-> "ValueError", list |-> <<>>]
        ELSE [error |-> "",
              list |-> PySet(headers, inp.value, p.output_col_name)]

PreprocOf(k, p, arr, cur, geoOk) ==
    CASE k = "noop" -> ConvertorPreproc(arr, cur)
      [] k = "acopy" -> IOPreproc(k, p, arr, cur)
      [] k = "geocoder_municipality" -> MunicipalityPreproc(k, p, arr, cur, geoOk)
      [] k = "generate_pk" -> GeneratePkPreproc(k, p, arr, cur)
      [] k = "split_row" -> SplitRowPreproc(k, p, arr, cur)
      [] k \in {"select_row_match", "select_row_contains"} -> ConvertorPreproc(arr, cur)
      [] k = "select_row_pattern" -> PatternPreproc(k, p, arr, cur)
      [] k = "calc" -> CalcPreproc(k, p, arr, cur)
      [] k = "rename_col" -> ConvertorPreproc(arr, cur)
      [] k = "move_col" -> MoveColPreproc(k, p, arr, cur)
      [] k = "split_col" -> SplitColPreproc(k, p, arr, cur)

\* --------------------------------------------------------- process_header
\* The header row a convertor emits, ok = FALSE when it raises IndexError.
HeaderOf(k, c, headers) ==
    CASE k \in {"noop", "split_row", "select_row_match", "select_row_contains",
                "select_row_pattern"} ->
            [ok |-> TRUE, list |-> headers]
      [] k = "calc" -> [ok |-> TRUE, list |-> CalcHeader(c, headers)]
      [] k = "move_col" ->
            [ok |-> TRUE, list |-> MoveList(c.input_col_idx, c.output_col_idx, headers)]
      [] k = "split_col" -> [ok |-> TRUE, list |-> SplitColHeader(c, headers)]
      [] k \in {"acopy", "generate_pk"} ->
            [ok |-> TRUE,
             list |-> Reorder(headers, c.del_col, c.output_col_idx, c.output_col_name)]
      [] k = "geocoder_municipality" ->
            IOsReorder(headers, c.del_col_indexes, c.output_col_idx, c.output_col_names)

\* process_header of each convertor class: the exception it raises ("" if
\* none) and the header row it hands to context.output.
ProcessHeaderOf(k, p, c, headers) ==
    IF k = "rename_col" THEN RenameColProcessHeader(k, p, headers)
    ELSE LET h == HeaderOf(k, c, headers)
         IN  [error |-> IF h.ok THEN "" ELSE "IndexError", list |-> h.list]

\* --------------------------------------------------------- process_record
\* Convertor.check_record.
CheckRecordAtLeast(d, rows) == d.num_of_columns <= Len(rows)
CheckRecord(d, rows) == d.num_of_columns = Len(rows)

\* InputOutputConvertor.process_convertor (AttrCopyConvertor keeps it).
IOProcessConvertor(c, rows) == PyGet(rows, c.input_col_idx)

\* The same without the overwrite flag: the value function is always called.
IONeedValueAlways(c, rows) == TRUE

\* InputOutputConvertor.process_record: whether the value function is called.
IONeedValue(c, rows) ==
    \/ c.overwrite
    \/ c.del_col >= Len(rows)
    \/ PyGet(rows, c.del_col) = ""

IORecord(c, rows) ==
    LET value == IF IONeedValue(c, rows) THEN IOProcessConvertor(c, rows)
                 ELSE PyGet(rows, c.del_col)
    IN  [ok |-> TRUE, list |-> Reorder(rows, c.del_col, c.output_col_idx, value)]

\* ToMunicipalityConvertor.process_convertor: the geocoder finds no node,
\* a municipality, or a ward of a designated city.
Nodes == {"none", "city", "ward"}
MunicipalityProcessConvertor(c, node) ==
    LET n == Len(c.output_col_names)
        result == CASE node = "none" -> c.default
                    [] node = "city" -> <<"City">>
                    [] node = "ward" -> <<"City", "Ward">>
    IN  IF n = 1 /\ Len(result) > 1 THEN <<"City Ward">>
        ELSE IF n > 1 /\ Len(result) = 1 THEN Append(result, c.default[2])
        ELSE result

\* InputOutputsConvertor.process_record.
IOsOldValues(c, rows) ==
    [i \in 1..Len(c.old_col_indexes) |->
        IF c.old_col_indexes[i] = None THEN "" ELSE PyGet(rows, c.old_col_indexes[i])]
IOsNeedValue(c, ow, rows) ==
    ow \/ \E i \in 1..Len(c.old_col_indexes) : IOsOldValues(c, rows)[i] = ""
\* The same with every destination recomputed, whatever it holds.
IOsNewValuesAll(c, ow, rows, node) == MunicipalityProcessConvertor(c, node)

IOsNewValues(c, ow, rows, node) ==
    LET old_values == IOsOldValues(c, rows)
        values == MunicipalityProcessConvertor(c, node)
    IN  IF ow THEN values
        ELSE [i \in 1..Len(old_values) |->
                 IF old_values[i] = "" THEN values[i] ELSE old_values[i]]
IOsRecord(c, ow, rows, node) ==
    IOsReorder(rows, c.del_col_indexes, c.output_col_idx,
               IOsNewValues(c, ow, rows, node))

RecordOf(k, p, c, rows, node) ==
    CASE k \in {"noop", "rename_col"} -> [ok |-> TRUE, list |-> rows]
      [] k = "move_col" ->
            [ok |-> TRUE, list |-> MoveList(c.input_col_idx, c.output_col_idx, rows)]
      [] k = "split_col" -> [ok |-> TRUE, list |-> SplitColRecord(c, rows)]
      [] k = "acopy" -> IORecord(c, rows)
      [] k = "geocoder_municipality" -> IOsRecord(c, GetOverwrite(k, p), rows, node)

\* Whether the row makes the convertor ask the geocoder.
AsksGeocoder(k, p, c, rows) ==
    k = "geocoder_municipality" /\ IOsNeedValue(c, GetOverwrite(k, p), rows)

\* ------------------------------------ the row convertors: process_record
\* What process_record does with one row: the exception it raises ("" if
\* none), the rows it hands to context.output in order, the convertor's
\* attributes afterwards, whether the value function was called and what
\* it returned (PyRaised when it raised).
PyRaised == "<raise>"
RowOutcome(err, rows, c, wasCalled, ret) ==
    [error |-> err, rows |-> rows, conv |-> c, called |-> wasCalled, ret |-> ret]
NotCalled(err, rows, c) == RowOutcome(err, rows, c, FALSE, NoneStr)

\* InputOutputConvertor.process_record: "value is False" leaves the row out.
IsSkipFalsy(value) == value \in {PyFalse, PyZero, NoneStr, ""}
IsSkip(value) == value = PyFalse

\* gen_key treating a key it knows as a repetition whatever seed made it.
GenKeyIgnoresSeed(key_list, seed, check_uniqueness) ==
    LET key == Hash[seed]
        known == \E e \in key_list : e[1] = key
    IN  IF known /\ check_uniqueness
        THEN [raised |-> FALSE, key |-> NoneStr, key_list |-> key_list]
        ELSE [raised |-> FALSE, key |-> key,
              key_list |-> key_list \cup {<<key, seed>>}]

\* UniqueKeyGenerator.gen_key: key_list holds <<key, seed>> pairs.
GenKey(key_list, seed, check_uniqueness) ==
    LET key == Hash[seed]
        known == \E e \in key_list : e[1] = key
        sameSeed == <<key, seed>> \in key_list
    IN  IF known /\ ~sameSeed
        THEN [raised |-> TRUE, key |-> NoneStr, key_list |-> key_list]
        ELSE IF known /\ check_uniqueness
        THEN [raised |-> FALSE, key |-> NoneStr, key_list |-> key_list]
        ELSE [raised |-> FALSE, key |-> key,
              key_list |-> key_list \cup {<<key, seed>>}]

\* GeneratePkConvertor.process_convertor.
GeneratePkProcessConvertor(c, rows) ==
    LET g == GenKey(c.key_list, PyGet(rows, c.input_col_idx),
                    c.skip_if_not_unique \/ c.error_if_not_unique)
    IN  IF g.raised \/ (g.key = NoneStr /\ c.error_if_not_unique)
        THEN [error |-> "ValueError", value |-> NoneStr, key_list |-> g.key_list]
        ELSE IF g.key = NoneStr /\ c.skip_if_not_unique
        THEN [error |-> "", value |-> PyFalse, key_list |-> g.key_list]
        ELSE [error |-> "", value |-> g.key, key_list |-> g.key_list]

\* InputOutputConvertor.process_record with the class's value function.
IOProcessRecord(k, c, rows) ==
    LET need == IONeedValue(c, rows)
        v == IF k = "generate_pk" THEN GeneratePkProcessConvertor(c, rows)
             ELSE [error |-> "", value |-> IOProcessConvertor(c, rows),
                   key_list |-> c.key_list]
        c1 == IF need THEN [c EXCEPT !.key_list = v.key_list] ELSE c
        value == IF need THEN v.value ELSE PyGet(rows, c.del_col)
    IN  IF need /\ v.error # "" THEN RowOutcome(v.error, <<>>, c1, TRUE, PyRaised)
        ELSE IF need /\ IsSkip(value) THEN RowOutcome("", <<>>, c1, TRUE, value)
        ELSE RowOutcome("", <<Reorder(rows, c.del_col, c.output_col_idx, value)>>,
                        c1, need, value)

\* The same with the pieces emitted last first.
SplitRowReversed(c, rows) ==
    LET splits == ReSplit(c.re_separator, PyGet(rows, c.input_col_idx))
    IN  NotCalled("",
            [i \in 1..Len(splits) |->
                [rows EXCEPT ![c.input_col_idx + 1] = splits[Len(splits) + 1 - i]]],
            c)

\* SplitRowConvertor.process_record.
SplitRowProcessRecord(c, rows) ==
    LET splits == ReSplit(c.re_separator, PyGet(rows, c.input_col_idx))
    IN  NotCalled("",
            [i \in 1..Len(splits) |->
                [rows EXCEPT ![c.input_col_idx + 1] = splits[i]]],
            c)

\* The three select_row convertors: get_param("input_col_idx") is made for
\* every row, and raises ValueError there for a reference that names no
\* column.
\* A selection that cuts the row down to the column it tests.
SelectsColumn(k, p, c, rows) ==
    LET idx == GetInputColIdx(k, p, c.headers)
    IN  IF idx.raised THEN NotCalled("ValueError", <<>>, c)
        ELSE NotCalled("", << <<PyGet(rows, idx.value)>> >>, c)

Selects(k, query, value) ==
    CASE k = "select_row_match" -> query = value
      [] k = "select_row_contains" -> StrContains(query, value)
      [] k = "select_row_pattern" -> ReMatch(query, value)
SelectProcessRecord(k, p, c, rows) ==
    LET idx == GetInputColIdx(k, p, c.headers)
        query == IF k = "select_row_pattern" THEN c.re_pattern ELSE p.more.query
    IN  IF idx.raised THEN NotCalled("ValueError", <<>>, c)
        ELSE IF Selects(k, query, PyGet(rows, idx.value))
        THEN NotCalled("", <<rows>>, c)
        ELSE NotCalled("", <<>>, c)

\* calc(valueA, valueB, calculation): ValueError for an operand that is not
\* a number, then the operator; a string raised for an operator that is no
\* member of Calculation is a TypeError.
Calc(valueA, valueB, calculation) ==
    IF ~IsNumber(valueA) \/ ~IsNumber(valueB)
    THEN [error |-> "ValueError", value |-> NoneStr]
    ELSE IF calculation = "Calculation.Add"
    THEN [error |-> "", value |-> FloatOf[HalfOf[valueA] + HalfOf[valueB]]]
    ELSE IF calculation = "Calculation.Div"
    THEN IF HalfOf[valueB] = 0
         THEN [error |-> "ZeroDivisionError", value |-> NoneStr]
         ELSE [error |-> "",
               value |-> FloatOf[(2 * HalfOf[valueA]) \div HalfOf[valueB]]]
    ELSE [error |-> "TypeError", value |-> NoneStr]

\* CalcColConvertor.process_record, the delete_col part: the two operand
\* columns are popped from the record the result was appended to.
CalcDeleteCols(c, r) ==
    LET r2 == IF c.delete_col THEN PyPop(r, c.attr1) ELSE r
    IN  IF c.delete_col /\ c.attr1 # c.attr2 THEN PyPop(r2, c.attr2) ELSE r2

\* process_record leaving out the row whose operand is not a number.
CalcSkipsNonNumbers(c, rows) ==
    LET v == Calc(PyGet(rows, c.attr1), PyGet(rows, c.attr2), c.operator)
    IN  IF v.error = "ValueError" THEN NotCalled("", <<>>, c)
        ELSE IF v.error # "" THEN NotCalled(v.error, <<>>, c)
        ELSE NotCalled("", <<CalcDeleteCols(c, Append(rows, v.value))>>, c)

\* CalcColConvertor.process_record: a ValueError of calc is caught and None
\* is appended in place of the result.  The record is the list the input
\* handed over: the rows here are the rows as they were read.
CalcProcessRecord(c, rows) ==
    LET v == Calc(PyGet(rows, c.attr1), PyGet(rows, c.attr2), c.operator)
    IN  IF v.error = "ValueError"
        THEN NotCalled("", <<CalcDeleteCols(c, Append(rows, NoneStr))>>, c)
        ELSE IF v.error # "" THEN NotCalled(v.error, <<>>, c)
        ELSE NotCalled("", <<CalcDeleteCols(c, Append(rows, v.value))>>, c)

\* process_record of each convertor class.
ProcessRecordOf(k, p, c, rows, node) ==
    CASE k \in {"acopy", "generate_pk"} -> IOProcessRecord(k, c, rows)
      [] k = "split_row" -> SplitRowProcessRecord(c, rows)
      [] k \in {"select_row_match", "select_row_contains", "select_row_pattern"} ->
            SelectProcessRecord(k, p, c, rows)
      [] k = "calc" -> CalcProcessRecord(c, rows)
      [] OTHER ->
            LET r == RecordOf(k, p, c, rows, node)
            IN  RowOutcome(IF r.ok THEN "" ELSE "IndexError",
                           IF r.ok THEN <<r.list>> ELSE <<>>, c,
                           AsksGeocoder(k, p, c, rows),
                           IF k = "geocoder_municipality"
                           THEN MunicipalityProcessConvertor(c, node) ELSE NoneStr)

\* ------------------------------------------------- the convertor registry
\* Convertor classes, by class name, and the key of each (Meta.key). Two
\* classes of a caller share the key "user".
MaxOps == 3
KeyOf ==
    ("AttrCopyConvertor" :> "acopy") @@ ("UserConvertor" :> "user") @@
    ("UserConvertor2" :> "user") @@ ("DateExtractConvertor" :> "date_extract") @@
    ("DatetimeExtractConvertor" :> "datetime_extract") @@
    ("AutoMappingColsConvertor" :> "auto_mapping_cols")
Classes == DOMAIN KeyOf
Keys == {KeyOf[c] : c \in Classes} \cup {"nosuch"}

\* The modules glob finds in the extras directory, and for each the
\* Convertor subclasses dir(module) lists, in dir's (sorted) order.
ExtraModules == <<"date_extract", "mapping_col">>
ModuleClasses ==
    ("date_extract" :> <<"DateExtractConvertor", "DatetimeExtractConvertor">>) @@
    ("mapping_col" :> <<"AutoMappingColsConvertor">>)

\* CONVERTORS and CONVERTOR_DICT as convertors.py leaves them when imported.
NoRegistry ==
    [CONVERTORS |-> <<"AttrCopyConvertor">>,
     CONVERTOR_DICT |-> [k \in Keys |-> IF k = "acopy" THEN "AttrCopyConvertor"
                                        ELSE NoneStr],
     all |-> <<>>, scans |-> 0, lazy |-> 0, ops |-> 0,
     last |-> <<>>, found |-> NoneStr]

\* register_convertor(convertor, selectable)
register_convertor(reg, convertor, selectable) ==
    [reg EXCEPT
        !.CONVERTORS = IF selectable THEN Append(@, convertor) ELSE @,
        !.CONVERTOR_DICT = [@ EXCEPT ![KeyOf[convertor]] = convertor]]

RECURSIVE RegisterEach(_, _)
RegisterEach(reg, classes) ==
    IF classes = <<>> THEN reg
    ELSE RegisterEach(register_convertor(reg, Head(classes), TRUE), Tail(classes))

RECURSIVE RegisterModules(_, _)
RegisterModules(reg, modules) ==
    IF modules = <<>> THEN reg
    ELSE RegisterModules(RegisterEach(reg, ModuleClasses[Head(modules)]),
                         Tail(modules))

\* extras.register(): every module found is appended to __all__, then the
\* classes of every entry of __all__ are registered.
register(reg) ==
    LET grown == [reg EXCEPT !.all = @ \o ExtraModules, !.scans = @ + 1]
    IN RegisterModules(grown, grown.all)

\* convertor_find_by(name)
convertor_find_by(reg, name) ==
    LET scanned == IF reg.CONVERTOR_DICT[name] = NoneStr
                   THEN [register(reg) EXCEPT !.lazy = @ + 1] ELSE reg
    IN [scanned EXCEPT !.found = scanned.CONVERTOR_DICT[name]]

convertor_all(reg) == reg.CONVERTORS
convertor_keys(reg) == [i \in 1..Len(reg.CONVERTORS) |-> KeyOf[reg.CONVERTORS[i]]]

\* ------------------------------------------------------ the header mapper
\* Scores are held in units of 1/Scale, so that score * 100 can fall between
\* two integers.
MaxItems == 2
Scale == 200
CeilPercent(score) == (score + 1) \div 2    \* math.ceil(score * 100.0)
BelowPercent(score, threshold) == score < 2 * threshold  \* score * 100.0 < threshold

\* ItemsPair.__init__: an empty heading is held as 'empty'.
ItemsOf(items) ==
    [i \in DOMAIN items |-> IF items[i] = "" THEN "empty" ELSE items[i]]

Names0 == {"", "x"}
Names1 == {"x", "y"}
\* Similarity.cos_sim of the word vectors of two headings: a value in
\* [-1, 1], 1 for equal headings.
CosValues == {-100, 39, Scale}
CosTables ==
    {c \in [{"empty", "x"} \X Names1 -> CosValues] : c[<<"x", "x">>] = Scale}

\* get_weighted_matrix: the square matrix of negated similarities, rows and
\* columns numbered from 0, zero where an item is missing.
Dim(items0, items1) == Max(Len(items0), Len(items1))
Mxsim(items0, items1, cos) ==
    [i \in 0..(Dim(items0, items1) - 1), j \in 0..(Dim(items0, items1) - 1) |->
        IF i < Len(items0) /\ j < Len(items1)
        THEN LET sim == cos[<<items0[i + 1], items1[j + 1]>>]
             IN -1 * (IF sim < 0 THEN 0 ELSE sim)
        ELSE 0]

\* Munkres().compute(matrix): one of the assignments of a column to every
\* row that has the least total cost, as (row, column) pairs in row order.
Assignments(dim) ==
    {p \in [0..(dim - 1) -> 0..(dim - 1)] :
        \A i, j \in 0..(dim - 1) : i # j => p[i] # p[j]}
RECURSIVE CostFrom(_, _, _, _)
CostFrom(mtx, p, i, dim) ==
    IF i >= dim THEN 0 ELSE mtx[i, p[i]] + CostFrom(mtx, p, i + 1, dim)
Munkres(mtx, dim) ==
    {[k \in 1..dim |-> <<k - 1, p[k - 1]>>] :
        p \in {q \in Assignments(dim) :
                 \A r \in Assignments(dim) :
                    CostFrom(mtx, q, 0, dim) <= CostFrom(mtx, r, 0, dim)}}

\* ItemsPair.mapping, for the pairs match() returned.
Mapping(items0, items1, mtx, pairs) ==
    [k \in 1..Len(pairs) |->
        LET i == pairs[k][1]
            j == pairs[k][2]
        IN [a |-> IF i < Len(items0) THEN items0[i + 1] ELSE NoneStr,
            b |-> IF j < Len(items1) THEN items1[j + 1] ELSE NoneStr,
            score |-> -1 * mtx[i, j]]]

\* Table.mapping_with_headers: for each result with an output heading, the
\* heading of this table it is mapped to, None when unmatched.
MappingWithHeaders(results, threshold) ==
    [k \in {k \in 1..Len(results) : results[k].a # NoneStr} |->
        IF results[k].b = NoneStr THEN NoneStr
        ELSE IF CeilPercent(results[k].score) < threshold THEN NoneStr
        ELSE results[k].b]

\* AutoMappingColsConvertor.process_header: the same choice, before
\* headers.index(header).
AutoMapping(results, threshold) ==
    [k \in {k \in 1..Len(results) : results[k].a # NoneStr} |->
        IF BelowPercent(results[k].score, threshold) \/ results[k].b = NoneStr
        THEN NoneStr ELSE results[k].b]

NoMapper ==
    [pc |-> "idle", given0 |-> <<>>, given1 |-> <<>>, cos |-> <<>>,
     threshold |-> 0, pairs |-> <<>>, results |-> <<>>, chosen |-> <<>>]

\* ------------------------------------------------------- date extraction
\* A date found in the text is the six groups of one match of re_date: the
\* number a group matched, or None when the group took no part in the match.
MaxDates == 2
\* Positions in a candidate [year, month, day, hour, minute, second], from 1.
Year == 1
Month == 2
Day == 3
Hour == 4
Minute == 5
Second == 6
Fields == Year..Second

\* _get_ymdhms: search_group turns a group that is None into ""; only the
\* seconds are then turned into None when they are not an integer.
_get_ymdhms(d) ==
    [f \in Fields |->
        IF d[f].t = "int" THEN d[f]
        ELSE IF f = Second THEN NoRef ELSE StrRef("")]

\* get_datetime(text)["datetime"] for a text in which re_date matches ds.
get_datetime(ds) == [k \in DOMAIN ds |-> _get_ymdhms(ds[k])]

\* The format specifiers process_convertor looks for when a field is None,
\* and the field each specifier of a format prints.
CheckedFor ==
    (Year :> {"%y", "%Y"}) @@ (Month :> {"%b", "%B", "%m"}) @@
    (Day :> {"%a", "%A", "%w", "%d"}) @@ (Hour :> {"%H", "%I", "%p"}) @@
    (Minute :> {"%M"}) @@ (Second :> {"%S"})
FieldOf ==
    ("%Y" :> Year) @@ ("%m" :> Month) @@ ("%d" :> Day) @@ ("%H" :> Hour) @@
    ("%M" :> Minute) @@ ("%S" :> Second)
Mentions(format, f) == \E k \in DOMAIN format : format[k] \in CheckedFor[f]

\* The value a field that is None is given before the format is looked at.
DefaultOf(f) == IF f \in {Year, Month, Day} THEN 1 ELSE 0

\* datetime.date / datetime.datetime: every argument must be an integer
\* (TypeError), and the day must exist in the month (ValueError).
DaysIn(month) == IF month = 2 THEN 28 ELSE 31
\* strftime: the fields the format names, in the format's order; a date has
\* no time of day.
Strftime(format, dt, used) ==
    [k \in DOMAIN format |->
        IF FieldOf[format[k]] \in used THEN dt[FieldOf[format[k]]].n ELSE 0]

\* One pass of the try block for the candidate dt: the result it assigns, or
\* the exception it raises.
TryCandidate(dt, format, used) ==
    LET filled == [f \in Fields |->
                      IF f \in used /\ dt[f] = NoRef THEN IntRef(DefaultOf(f))
                      ELSE dt[f]]
    IN IF \E f \in used : dt[f] = NoRef /\ Mentions(format, f)
       THEN [raised |-> "ValueError", result |-> <<>>]
       ELSE IF \E f \in used : filled[f].t # "int"
       THEN [raised |-> "TypeError", result |-> <<>>]
       ELSE IF filled[Day].n > DaysIn(filled[Month].n)
       THEN [raised |-> "ValueError", result |-> <<>>]
       ELSE [raised |-> "", result |-> Strftime(format, filled, used)]

\* The loop over extracted["datetime"], from candidate k on: ValueError is
\* passed over, any other exception leaves process_convertor, and the loop
\* is left as soon as result differs from the default.
RECURSIVE ExtractFrom(_, _, _, _, _, _)
ExtractFrom(cands, k, format, default, used, result) ==
    IF k > Len(cands) THEN [raised |-> "", result |-> result]
    ELSE LET t == TryCandidate(cands[k], format, used)
             r == IF t.raised = "" THEN t.result ELSE result
         IN IF t.raised = "TypeError" THEN [raised |-> "TypeError", result |-> <<>>]
            ELSE IF r # default THEN [raised |-> "", result |-> r]
            ELSE ExtractFrom(cands, k + 1, format, default, used, r)

\* DateExtractConvertor / DatetimeExtractConvertor .process_convertor
ExtractProcessConvertor(ds, format, default, used) ==
    LET extracted == get_datetime(ds)
    IN IF Len(extracted) = 0 THEN [raised |-> "", result |-> default]
       ELSE ExtractFrom(extracted, 1, format, default, used, default)

NoDates ==
    [pc |-> "idle", matches |-> <<>>, format |-> <<>>, default |-> <<>>,
     result |-> <<>>, raised |-> ""]

\* No step has been applied before this one.
NoChain == [n |-> 0, outs |-> <<>>]

LibIdle ==
    registry = NoRegistry /\ mapper = NoMapper /\ dates = NoDates /\ chain = NoChain

\* ------------------------------------------------------------------ Init
ReorderIdle ==
    rS = <<>> /\ rD = None /\ rI = 0 /\ rOut = <<>> /\ rpc = "idle"

\* The state after ArrayInputCollection(array) and before Context(...).
StepInit(arrays, paramMaps) ==
    /\ array \in arrays
    /\ current = 0
    /\ callerReads = 0
    /\ kind \in Kinds
    /\ params \in paramMaps[kind]
    /\ geocoderOk \in IF kind = "geocoder_municipality" THEN BOOLEAN ELSE {TRUE}
    /\ warned = {}
    /\ data = NoData
    /\ conv = NoConv
    /\ out = <<>>
    /\ pc = "new"
    /\ error = ""
    /\ failedIn = ""
    /\ probe = NoProbe
    /\ hdrGiven = <<>>
    /\ checked = <<>>
    /\ processed = <<>>
    /\ outSrc = <<>>
    /\ called = <<>>
    /\ fs = NoTable

\* Parameter maps of a pipeline step whose keys are the declared ones.
StepParams ==
    [k \in Kinds |->
        CASE k = "noop" -> {ParamMap({}, NoRef, NoneStr, NoRef, <<>>, TRUE)}
          [] k = "acopy" ->
                {ParamMap({"input_col_idx"} \cup opt, i, n, o, <<>>, FALSE) :
                    opt \in SUBSET {"output_col_name", "output_col_idx", "overwrite"},
                    i \in InRefs, n \in OutNames, o \in OutRefs}
          [] k = "geocoder_municipality" ->
                {ParamMap({"input_col_idx", "output_col_names", "default"} \cup opt,
                          i, NoneStr, o, l, TRUE) :
                    opt \in SUBSET {"output_col_idx", "overwrite"},
                    i \in {IntRef(0)}, o \in OutsRefs, l \in OutNameLists}]

Init == StepInit(Arrays, StepParams) /\ ReorderIdle /\ LibIdle

\* ---------------------------------------------------------------- actions
Fail(err, where) == pc' = "failed" /\ error' = err /\ failedIn' = where
NoFail == error' = "" /\ failedIn' = ""

\* Convertor.process aborts when preproc raises and when it returns False.
PreprocFatalOnRaise(r) == r.ret = "raise"
PreprocFatal(r) == r.ret = "raise" \/ r.ret = "False"

\* Context.__enter__ and __exit__ over the collections of Table.convert:
\* the input is entered (it is open already) and the output file is opened
\* for writing, which creates it; both are closed on exit.  Array
\* collections have nothing to open or close.
ContextEnter(f) ==
    IF f.at = "direct" THEN f
    ELSE [f EXCEPT !.inOpen = TRUE, !.outOpen = TRUE, !.file = "exists"]
ContextExitInputOnly(f) == [f EXCEPT !.inOpen = FALSE]
ContextExit(f) == [f EXCEPT !.inOpen = FALSE, !.outOpen = FALSE]

\* Context.__init__ and __enter__: a warning for every key the convertor
\* does not declare, ValueError when a required parameter is missing.
NewContext ==
    /\ pc = "new"
    /\ fs.at \in {"direct", "running"}
    /\ warned' = params.keys \ Declared(kind)
    /\ IF Required(kind) \subseteq params.keys
       THEN pc' = "ctx" /\ NoFail /\ fs' = ContextEnter(fs)
       ELSE Fail("ValueError", "init") /\ fs' = fs
    /\ UNCHANGED <<array, current, callerReads, kind, params, geocoderOk, data,
                   conv, out, probe, hdrGiven, checked, processed, outSrc, called,
                   rvars, libVars>>

\* Convertor.process, the preproc call: RuntimeError when it returns False.
Preproc ==
    /\ pc = "ctx"
    /\ LET r == PreprocOf(kind, params, array, current, geocoderOk)
       IN  /\ conv' = r.conv
           /\ data' = r.data
           /\ current' = r.current
           /\ IF PreprocFatal(r)
              THEN Fail(IF r.ret = "raise" THEN r.error ELSE "RuntimeError", "preproc")
              ELSE pc' = "preproc_done" /\ NoFail
    /\ UNCHANGED <<array, callerReads, kind, params, geocoderOk, warned, out,
                   probe, hdrGiven, checked, processed, outSrc, called, fs, rvars, libVars>>

\* Convertor.process: context.reset(), context.next(), and
\* process_header(self.headers, context).
ProcessHeader ==
    /\ pc = "preproc_done"
    /\ LET h == ProcessHeaderOf(kind, params, conv, conv.headers)
       IN  IF Len(array) = 0 THEN
                /\ Fail("StopIteration", "header")
                /\ UNCHANGED <<current, out, hdrGiven, outSrc>>
           ELSE /\ current' = 1
                /\ hdrGiven' = Append(hdrGiven, conv.headers)
                /\ IF h.error = ""
                   THEN /\ out' = Append(out, h.list)
                        /\ outSrc' = Append(outSrc, 0)
                        /\ pc' = "records" /\ NoFail
                   ELSE /\ Fail(h.error, "header")
                        /\ UNCHANGED <<out, outSrc>>
    /\ UNCHANGED <<array, callerReads, kind, params, geocoderOk, warned, data,
                   conv, probe, checked, processed, called, fs, rvars, libVars>>

\* One turn of the loop over context.read(): check_record, then
\* process_record unless the row is skipped.
ProcessRecord ==
    /\ pc = "records"
    /\ current < Len(array)
    /\ LET rows == array[current + 1]
       IN  /\ current' = current + 1
           /\ checked' = Append(checked, current)
           /\ IF ~CheckRecord(data, rows)
              THEN UNCHANGED <<out, outSrc, processed, called, conv, pc, error,
                               failedIn>>
              ELSE /\ processed' = Append(processed, current)
                   /\ \E node \in IF AsksGeocoder(kind, params, conv, rows)
                                  THEN Nodes ELSE {"none"} :
                        LET r == ProcessRecordOf(kind, params, conv, rows, node)
                        IN  /\ conv' = r.conv
                            /\ called' = IF r.called
                                         THEN Append(called, [pos |-> current,
                                                              ret |-> r.ret])
                                         ELSE called
                            /\ out' = out \o r.rows
                            /\ outSrc' = outSrc \o [i \in 1..Len(r.rows) |-> current]
                            /\ IF r.error = ""
                               THEN UNCHANGED <<pc, error, failedIn>>
                               ELSE Fail(r.error, "record")
    /\ UNCHANGED <<array, callerReads, kind, params, geocoderOk, warned, data,
                   probe, hdrGiven, fs, rvars, libVars>>

\* The input raises StopIteration: the loop and the step end.
EndOfInput ==
    /\ pc = "records"
    /\ current = Len(array)
    /\ pc' = "done"
    /\ UNCHANGED <<array, current, callerReads, kind, params, geocoderOk, warned,
                   data, conv, out, error, failedIn, probe, hdrGiven, checked,
                   processed, outSrc, called, fs, rvars, libVars>>

Next ==
    \/ NewContext
    \/ Preproc
    \/ ProcessHeader
    \/ ProcessRecord
    \/ EndOfInput

Spec == Init /\ [][Next]_vars

\* ------------------------------------------------- steps over data rows
\* Steps of the convertors that leave rows out, multiply them or compute
\* from their cells, over tables of well-formed rows.  Each class gets the
\* cells its code distinguishes: for each column of the table, the set of
\* values a cell of that column takes.
RowKinds ==
    {"acopy", "generate_pk", "split_row", "select_row_match",
     "select_row_contains", "select_row_pattern", "calc", "geocoder_municipality"}
SelectKinds == {"select_row_match", "select_row_contains", "select_row_pattern"}

RowCols(k, r) ==
    CASE k = "acopy" -> <<{"", "p", PyFalse, PyZero, NoneStr}, {"", "y"}>>
      [] k = "generate_pk" -> <<{"s1", "s2", "s3"}, {CellTab[r][2]}>>
      [] k = "split_row" -> <<{"", "p", "p,q", "q,p", "p,"}, {CellTab[r][2]}>>
      [] k \in SelectKinds -> <<{"p", "q", "p,q", "q,p"}, {CellTab[r][2]}>>
      [] k = "calc" -> <<{"1", "2", "x"}, {"0", "2"}, {CellTab[r][3]}>>
      [] k = "split_col" -> <<{"p", "p,q", "p,"}, {CellTab[r][2]}>>
      [] k = "geocoder_municipality" -> <<{"p"}, {"", "y"}, {"", "z"}>>

RowsAt(k, r) ==
    LET cols == RowCols(k, r)
    IN  {row \in [1..Len(cols) -> UNION {cols[i] : i \in 1..Len(cols)}] :
            \A i \in 1..Len(cols) : row[i] \in cols[i]}
RowArrays(k) ==
    LET h == SubSeq(HdrNames, 1, Len(RowCols(k, 1)))
    IN  UNION {
            {<<h>> \o body : body \in {b \in [1..n -> UNION {RowsAt(k, r) : r \in 1..n}] :
                                          \A r \in 1..n : b[r] \in RowsAt(k, r)}} :
            n \in 0..MaxRows}

\* The parameter maps of these steps.
Supplied(p, keys, more) == [p EXCEPT !.keys = keys, !.more = more]
RowParams ==
    [k \in RowKinds |->
        CASE k = "acopy" ->
                {ParamMap({"input_col_idx", "output_col_name"} \cup opt,
                          StrRef("a"), n, NoRef, <<>>, ow) :
                    opt \in SUBSET {"overwrite"}, n \in {"b", "n"}, ow \in BOOLEAN}
          [] k = "generate_pk" ->
                {Supplied(ParamMap({"input_col_idx", "output_col_name"},
                                   StrRef("a"), "n", NoRef, <<>>, TRUE),
                          {"input_col_idx", "output_col_name"} \cup opt,
                          [NoMore EXCEPT !.error_if_not_unique = e,
                                         !.skip_if_not_unique = sk]) :
                    opt \in SUBSET {"error_if_not_unique", "skip_if_not_unique"},
                    e \in BOOLEAN, sk \in BOOLEAN}
          [] k = "split_row" ->
                {Supplied(ParamMap({"input_col_idx"}, i, NoneStr, NoRef, <<>>, TRUE),
                          {"input_col_idx", "separator"},
                          [NoMore EXCEPT !.separator = sep]) :
                    i \in {StrRef("a"), StrRef("zz")}, sep \in {",", ";"}}
          [] k \in SelectKinds ->
                {Supplied(ParamMap({"input_col_idx"}, i, NoneStr, NoRef, <<>>, TRUE),
                          {"input_col_idx", "query"},
                          [NoMore EXCEPT !.query = q]) :
                    i \in {StrRef("a"), StrRef("zz")}, q \in {"p", "q"}}
          [] k = "calc" ->
                {Supplied(ParamMap(opt \cap {"output_col_name"},
                                   NoRef, "n", NoRef, <<>>, TRUE),
                          {"input_col_idx1", "input_col_idx2"} \cup opt,
                          [NoMore EXCEPT !.input_col_idx1 = StrRef(cols[1]),
                                         !.input_col_idx2 = StrRef(cols[2]),
                                         !.operator = op,
                                         !.delete_col = "delete_col" \in opt]) :
                    opt \in SUBSET {"output_col_name", "operator", "delete_col"},
                    cols \in {<<"a", "b">>, <<"b", "a">>, <<"a", "a">>},
                    op \in {"+", "/"}}
          [] k = "geocoder_municipality" ->
                {ParamMap({"input_col_idx", "output_col_names", "default"} \cup opt,
                          StrRef("a"), NoneStr, NoRef, l, ow) :
                    opt \in SUBSET {"overwrite"}, ow \in BOOLEAN,
                    l \in {<<"b">>, <<"b", "c">>, <<"b", "n">>}}]

\* The state after the collections are made and before Context(...).
RowsInit ==
    /\ kind \in RowKinds
    /\ array \in RowArrays(kind)
    /\ params \in RowParams[kind]
    /\ current = 0 /\ callerReads = 0 /\ geocoderOk = TRUE /\ warned = {}
    /\ data = NoData /\ conv = NoConv /\ out = <<>> /\ pc = "new"
    /\ error = "" /\ failedIn = "" /\ probe = NoProbe /\ hdrGiven = <<>>
    /\ checked = <<>> /\ processed = <<>> /\ outSrc = <<>> /\ called = <<>>
    /\ fs = NoTable
    /\ ReorderIdle /\ LibIdle

SpecRows == RowsInit /\ [][Next]_vars

\* ------------------------------------------------------- Table.convert
\* A step run by Table.convert(convertor, params, output): the input is the
\* table's CSV reader, the output a CSV file, either the one the caller
\* names or a temporary file made for the step.
ConvertKinds ==
    {"noop", "select_row_match", "geocoder_municipality", "unregistered"}
ConvertArrays(k) ==
    IF k = "geocoder_municipality" THEN RowArrays(k)
    ELSE RowArrays("select_row_match")
ConvertParams(k) ==
    CASE k \in {"noop", "unregistered"} ->
            {ParamMap({}, NoRef, NoneStr, NoRef, <<>>, TRUE)}
      [] k = "select_row_match" ->
            {Supplied(ParamMap({"input_col_idx"}, i, NoneStr, NoRef, <<>>, TRUE),
                      {"input_col_idx"} \cup opt, [NoMore EXCEPT !.query = "p"]) :
                i \in {StrRef("a"), StrRef("zz")}, opt \in SUBSET {"query"}}
      [] k = "geocoder_municipality" ->
            {ParamMap({"input_col_idx", "output_col_names", "default"},
                      i, NoneStr, NoRef, <<"n">>, TRUE) :
                i \in {StrRef("a"), StrRef("zz")}}

ConvertInit ==
    /\ kind \in ConvertKinds
    /\ array \in ConvertArrays(kind)
    /\ params \in ConvertParams(kind)
    /\ geocoderOk \in IF kind = "geocoder_municipality" THEN BOOLEAN ELSE {TRUE}
    /\ \E named \in BOOLEAN : fs = [NoTable EXCEPT !.at = "start", !.named = named]
    /\ current = 0 /\ callerReads = 0 /\ warned = {}
    /\ data = NoData /\ conv = NoConv /\ out = <<>> /\ pc = "new"
    /\ error = "" /\ failedIn = "" /\ probe = NoProbe /\ hdrGiven = <<>>
    /\ checked = <<>> /\ processed = <<>> /\ outSrc = <<>> /\ called = <<>>
    /\ ReorderIdle /\ LibIdle

\* "output is None" where convert tests it, after the name output was bound
\* to the CsvOutputCollection.
OutputIsNone(f) == FALSE

\* convert up to the with statement: self.open(), the result file (a
\* NamedTemporaryFile, which creates it, unless the caller named one), the
\* collections, and the lookup of the convertor class, ValueError when the
\* name is not registered.
ConvertBegin ==
    /\ pc = "new"
    /\ fs.at = "start"
    /\ IF kind = "unregistered"
       THEN /\ fs' = [fs EXCEPT !.at = "raised", !.inOpen = TRUE,
                                !.file = IF fs.named THEN fs.file ELSE "exists"]
            /\ Fail("ValueError", "lookup")
       ELSE /\ fs' = [fs EXCEPT !.at = "running", !.inOpen = TRUE,
                                !.file = IF fs.named THEN fs.file ELSE "exists"]
            /\ UNCHANGED <<pc, error, failedIn>>
    /\ UNCHANGED <<array, current, callerReads, kind, params, geocoderOk, warned,
                   data, conv, out, probe, hdrGiven, checked, processed, outSrc,
                   called, rvars, libVars>>

\* process returned: the new Table is made over the result file, and
\* leaving the with statement closes the collections.
ConvertReturn ==
    /\ pc = "done"
    /\ fs.at = "running"
    /\ fs' = [ContextExit(fs) EXCEPT !.at = "returned",
                                     !.is_tempfile = OutputIsNone(fs)]
    /\ UNCHANGED <<array, current, callerReads, kind, params, geocoderOk, warned,
                   data, conv, out, pc, error, failedIn, probe, hdrGiven, checked,
                   processed, outSrc, called, rvars, libVars>>

\* convert raises.  The Context constructor is outside the with body: when
\* it raises nothing was entered and nothing is closed.  Inside, only
\* RuntimeError is caught, the result file removed if "output is None", and
\* the exception raised again; leaving the with statement closes the
\* collections whatever the exception.
ConvertRaise ==
    /\ pc = "failed"
    /\ fs.at = "running"
    /\ fs' = IF failedIn = "init" THEN [fs EXCEPT !.at = "raised"]
             ELSE [ContextExit(fs) EXCEPT
                      !.at = "raised",
                      !.file = IF error = "RuntimeError" /\ OutputIsNone(fs)
                               THEN "removed" ELSE fs.file]
    /\ UNCHANGED <<array, current, callerReads, kind, params, geocoderOk, warned,
                   data, conv, out, pc, error, failedIn, probe, hdrGiven, checked,
                   processed, outSrc, called, rvars, libVars>>

\* Table.__del__ on the Table convert returned.
TableDel ==
    /\ fs.at = "returned"
    /\ fs' = [fs EXCEPT !.at = "deleted",
                        !.file = IF fs.is_tempfile /\ fs.file = "exists"
                                 THEN "removed" ELSE fs.file]
    /\ UNCHANGED <<array, current, callerReads, kind, params, geocoderOk, warned,
                   data, conv, out, pc, error, failedIn, probe, hdrGiven, checked,
                   processed, outSrc, called, rvars, libVars>>

NextConvert ==
    \/ ConvertBegin
    \/ ConvertReturn
    \/ ConvertRaise
    \/ TableDel
    \/ Next

SpecConvert == ConvertInit /\ [][NextConvert]_vars

\* ------------------------------------------------- the caller's side
\* The caller may hand over an input it has already read from, a parameter
\* map with keys the convertor does not declare or without a required one,
\* and convertor code may ask the context for any parameter name.
CallerParams ==
    [k \in Kinds |->
        CASE k = "noop" ->
                {ParamMap(keys, IntRef(0), NoneStr, NoRef, <<>>, TRUE) :
                    keys \in SUBSET {"input_col_idx", "bogus"}}
          [] k = "acopy" ->
                {ParamMap(keys, i, NoneStr, NoRef, <<>>, FALSE) :
                    keys \in SUBSET {"input_col_idx", "overwrite", "bogus"},
                    i \in {IntRef(0), StrRef("zz")}}
          [] k = "geocoder_municipality" ->
                {ParamMap({"output_col_names", "default"} \cup keys,
                          IntRef(0), NoneStr, NoRef, <<"n">>, TRUE) :
                    keys \in SUBSET {"input_col_idx", "output_col_name", "bogus"}}]

InitCaller == StepInit(Arrays, CallerParams) /\ ReorderIdle /\ LibIdle

\* ArrayInputCollection.next, called by the caller before the step.
CallerNext ==
    /\ pc = "new"
    /\ callerReads < MaxPreRead
    /\ current < Len(array)
    /\ current' = current + 1
    /\ callerReads' = callerReads + 1
    /\ UNCHANGED <<array, kind, params, geocoderOk, warned, data, conv, out, pc,
                   error, failedIn, probe, hdrGiven, checked, processed, outSrc,
                   called, fs, rvars, libVars>>

\* Context.get_param(name) for a name of the caller's or the convertor's
\* choosing, once the rows are through.
ProbeNames == {"input_col_idx", "output_col_name", "overwrite", "bogus", "lines"}
GetParamFails(k, p, headers, name) ==
    \/ GetParamRaises(k, p, name)
    \/ name = "input_col_idx" /\ GetInputColIdx(k, p, headers).raised
GetParam ==
    /\ pc = "done"
    /\ \E name \in ProbeNames :
          probe' = [name |-> name,
                    raised |-> GetParamFails(kind, params, data.headers, name)]
    /\ pc' = "asked"
    /\ UNCHANGED <<array, current, callerReads, kind, params, geocoderOk, warned,
                   data, conv, out, error, failedIn, hdrGiven, checked, processed,
                   outSrc, called, fs, rvars, libVars>>

NextCaller ==
    \/ CallerNext
    \/ GetParam
    \/ Next

SpecCaller == InitCaller /\ [][NextCaller]_vars

\* ------------------------------------------------- reorder taken on its own
Elems == {"a", "b"}
NewValue == "v"

StepIdle ==
    /\ array = <<>> /\ current = 0 /\ callerReads = 0 /\ kind = "noop"
    /\ params = ParamMap({}, NoRef, NoneStr, NoRef, <<>>, TRUE)
    /\ geocoderOk = TRUE /\ warned = {} /\ data = NoData /\ conv = NoConv
    /\ out = <<>> /\ pc = "idle" /\ error = "" /\ failedIn = ""
    /\ probe = NoProbe /\ hdrGiven = <<>>
    /\ checked = <<>> /\ processed = <<>> /\ outSrc = <<>>
    /\ called = <<>> /\ fs = NoTable

RInit ==
    /\ rS \in SeqsUpTo(Elems, MaxLen)
    /\ rD \in {None} \cup (0..(Len(rS) - 1))
    /\ rI \in (-2)..(MaxLen + 2)
    /\ rOut = <<>>
    /\ rpc = "args"
    /\ StepIdle /\ LibIdle

RCall ==
    /\ rpc = "args"
    /\ rOut' = Reorder(rS, rD, rI, NewValue)
    /\ rpc' = "returned"
    /\ UNCHANGED <<rS, rD, rI, stepVars, libVars>>

RNext == RCall

SpecReorder == RInit /\ [][RNext]_vars

\* The index at which reorder finally inserts, and where that lands.
FinalInsertIdx == IF rD # None /\ rD < rI THEN rI - 1 ELSE rI
FinalPoint ==
    IF FinalInsertIdx < 0 \/ FinalInsertIdx > Len(rOut) - 1
    THEN Len(rOut) - 1 ELSE FinalInsertIdx

\* C1: reorder(S, d, i, v) returns a sequence of length
\* len(S) - (1 if d is given) + 1 whose element at the final insertion
\* point (i - 1 when d < i, otherwise i, the last position when that index
\* is negative or past the end) is v.
C1_ReorderLengthAndValue ==
    rpc = "returned" =>
        /\ Len(rOut) = Len(rS) - (IF rD # None THEN 1 ELSE 0) + 1
        /\ PyGet(rOut, FinalPoint) = NewValue

C1_Witness ==
    /\ rpc = "returned"
    /\ rD # None /\ rD < rI /\ rI < Len(rS)
    /\ Len(rS) = MaxLen

\* ------------------------------------------------- properties of a step
Last(s) == s[Len(s)]
Range(s) == {s[k] : k \in 1..Len(s)}
Positions(n) == [i \in 1..n |-> i]

\* The step has run its preproc (successfully or not).
PastPreproc == pc \in {"preproc_done", "records", "done", "failed"} /\ failedIn # "init"

\* A block of n columns inserted at Python slice index ins into a list of
\* final length total: where it starts, what it holds, what surrounds it.
BlockStart(total, n, ins) ==
    LET m == total - n IN IF ins < 0 THEN Max(m + ins, 0) ELSE Min(ins, m)
Block(lst, start, n) == SubSeq(lst, start + 1, start + n)
OutsideBlock(lst, start, n) ==
    SubSeq(lst, 1, start) \o SubSeq(lst, start + n + 1, Len(lst))

\* The same step with its two output names declared in the other order.
SwapNames(l) == <<l[2], l[1]>>
SwappedParams == [params EXCEPT !.output_col_names = SwapNames(@)]
SwappedConv == PreprocOf(kind, SwappedParams, array, callerReads, geocoderOk).conv

\* A multi-output step whose two output names are distinct header names has
\* emitted its header.
C2_Case ==
    /\ kind = "geocoder_municipality"
    /\ pc \in {"records", "done"}
    /\ Len(params.output_col_names) = 2
    /\ params.output_col_names[1] # params.output_col_names[2]
    /\ PyIn(array[1], params.output_col_names[1])
    /\ PyIn(array[1], params.output_col_names[2])

\* C2 as stated: for a multi-output convertor whose output names are a
\* subset of the header names, declaring the names in the other order yields
\* the same final header list and, for the same geocoder answers, the same
\* final values in every data row.
C2_SameHeaderAndRows ==
    C2_Case =>
        /\ HeaderOf(kind, SwappedConv, array[1]).list = out[1]
        /\ \A j \in 2..Len(out) : \A node \in Nodes :
              LET rows == array[outSrc[j] + 1]
              IN  RecordOf(kind, params, conv, rows, node).list = out[j]
                  => RecordOf(kind, SwappedParams, SwappedConv, rows, node).list = out[j]

\* C2, amended: declaring the output names in the other order removes the
\* same existing columns and puts the output block at the same position, so
\* the header names and the row values outside the block are the same, in
\* the same order; inside the block the header names stand in the declared
\* order.
C2_SameOutsideBlock ==
    C2_Case =>
        LET names == params.output_col_names
            hq == HeaderOf(kind, SwappedConv, array[1]).list
            st == BlockStart(Len(out[1]), 2, conv.output_col_idx)
        IN  /\ SwappedConv.output_col_idx = conv.output_col_idx
            /\ Len(hq) = Len(out[1])
            /\ OutsideBlock(hq, st, 2) = OutsideBlock(out[1], st, 2)
            /\ Block(out[1], st, 2) = names
            /\ Block(hq, st, 2) = SwapNames(names)
            /\ \A j \in 2..Len(out) : \A node \in Nodes :
                  LET rows == array[outSrc[j] + 1]
                      rq == RecordOf(kind, SwappedParams, SwappedConv, rows, node).list
                  IN  RecordOf(kind, params, conv, rows, node).list = out[j]
                      => /\ Len(rq) = Len(out[j])
                         /\ OutsideBlock(rq, st, 2) = OutsideBlock(out[j], st, 2)

C2_Witness ==
    /\ C2_Case
    /\ pc = "done"
    /\ Len(array[1]) = MaxCols
    /\ Len(out) = MaxRows + 1
    /\ "output_col_idx" \in params.keys
    /\ params.output_col_idx = IntRef(1)

\* C3 as stated: whatever read position the input is in when the step
\* starts, process_header is handed the row at position 0 of the input, and
\* the rows at positions 1 to the end are passed to check_record exactly
\* once, in input order.
C3_HeaderIsRowZero ==
    /\ hdrGiven # <<>> => hdrGiven = <<array[1]>>
    /\ pc \in {"done", "asked"} => checked = Positions(Len(array) - 1)

\* The outcome of the step's preproc call.
PreOutcome == PreprocOf(kind, params, array, callerReads, geocoderOk)

\* C4: if preproc returns False or raises, the driver raises a fatal error
\* and no row, not even the header, has been appended to the output.
C4_PreprocFailureIsFatal ==
    (PastPreproc /\ PreOutcome.ret \in {"False", "raise"}) =>
        /\ pc = "failed"
        /\ failedIn = "preproc"
        /\ error = (IF PreOutcome.ret = "False" THEN "RuntimeError" ELSE PreOutcome.error)
        /\ out = <<>>
        /\ hdrGiven = <<>>

C4_Witness ==
    /\ kind = "geocoder_municipality"
    /\ ~geocoderOk
    /\ pc = "failed"
    /\ error = "RuntimeError"
    /\ Len(array) = MaxRows + 1
    /\ out = <<>>

\* C5: constructing a Context without a required parameter raises before
\* any input row is read; an undeclared parameter key only logs a warning
\* and does not raise; get_param on an undeclared name always raises,
\* whether or not a value was supplied under that name.
C5_ContextParameters ==
    /\ (pc # "new" /\ ~(Required(kind) \subseteq params.keys)) =>
          /\ pc = "failed" /\ failedIn = "init" /\ error = "ValueError"
          /\ current = callerReads
          /\ hdrGiven = <<>> /\ checked = <<>> /\ out = <<>>
    /\ (pc # "new" /\ Required(kind) \subseteq params.keys) =>
          /\ failedIn # "init"
          /\ warned = params.keys \ Declared(kind)
    /\ (pc = "asked" /\ probe.name \notin Declared(kind)) => probe.raised

C5_Witness ==
    /\ pc = "asked"
    /\ probe.name = "bogus"
    /\ "bogus" \in params.keys
    /\ probe.raised
    /\ warned = {"bogus"}

\* A column reference read as the claims read it: a string of digits that
\* names no header stands for the integer it spells; any other string is a
\* name.
IsNameRef(ref, headers) ==
    ref.t = "str" /\ (PyIn(headers, ref.s) \/ ~IsDigits(ref.s))
IntOfRef(ref) == IF ref.t = "int" THEN ref.n ELSE StrToInt[ref.s]

\* C6 as stated: an input column reference that is a name matching no
\* header, or an integer outside 0 .. len(header) - 1, is never resolved to
\* a column: the step fails before any data row is processed.
C6_InvalidInputRefFails ==
    LET ref == params.input_col_idx
        headers == array[1]
    IN  (/\ PastPreproc
         /\ kind \in {"acopy", "geocoder_municipality"}
         /\ "input_col_idx" \in params.keys
         /\ IF IsNameRef(ref, headers) THEN ~PyIn(headers, ref.s)
            ELSE IntOfRef(ref) < 0 \/ IntOfRef(ref) > Len(headers) - 1)
        => /\ pc = "failed"
           /\ failedIn = "preproc"
           /\ conv.input_col_idx = None
           /\ processed = <<>>

\* C7: resolving a header name to an index and reading the header list at
\* that index returns the same name, for every name in the header; a name
\* that occurs more than once resolves to the index of its first
\* occurrence.
C7_NameResolvesToFirstOccurrence ==
    LET headers == data.headers
        ref == params.input_col_idx
    IN  /\ \A k \in 1..Len(headers) :
              LET r == GetColumnNumber(StrRef(headers[k]), headers, FALSE)
              IN  /\ ~r.raised
                  /\ r.value \in 0..(Len(headers) - 1)
                  /\ PyGet(headers, r.value) = headers[k]
                  /\ \A j \in 1..r.value : headers[j] # headers[k]
        /\ (/\ kind = "acopy"
            /\ pc \in {"preproc_done", "records", "done"}
            /\ ref.t = "str" /\ PyIn(headers, ref.s))
           => /\ conv.input_col_idx \in 0..(Len(headers) - 1)
              /\ PyGet(headers, conv.input_col_idx) = ref.s
              /\ \A j \in 1..conv.input_col_idx : headers[j] # ref.s

C7_Witness ==
    /\ kind = "acopy"
    /\ pc = "done"
    /\ params.input_col_idx = StrRef("b")
    /\ data.headers = <<"a", "b", "b">>
    /\ conv.input_col_idx = 1

\* An output position the claims call unresolvable: a name matching no
\* header, or an integer beyond the last column.
OutputRefPastEnd(ref, headers) ==
    IF IsNameRef(ref, headers) THEN ~PyIn(headers, ref.s)
    ELSE IntOfRef(ref) >= Len(headers)

\* C8 as stated: in a multi-output convertor, when the output position is a
\* name matching no header or an integer beyond the last column, the step
\* does not fail and the block of output columns is placed after every
\* remaining column, in the header and in each data row.
C8_BlockAppendedAtEnd ==
    (/\ kind = "geocoder_municipality"
     /\ PastPreproc
     /\ PreOutcome.ret \notin {"False", "raise"}
     /\ "output_col_idx" \in params.keys
     /\ OutputRefPastEnd(params.output_col_idx, array[1]))
    => /\ pc # "failed"
       /\ LET n == Len(params.output_col_names)
          IN  /\ out # <<>> =>
                    SubSeq(out[1], Len(out[1]) - n + 1, Len(out[1]))
                        = params.output_col_names
              /\ \A j \in 2..Len(out) :
                    LET rows == array[outSrc[j] + 1]
                        ow == GetOverwrite(kind, params)
                    IN  \E node \in Nodes :
                           /\ out[j] = IOsRecord(conv, ow, rows, node).list
                           /\ SubSeq(out[j], Len(out[j]) - n + 1, Len(out[j]))
                                 = IOsNewValues(conv, ow, rows, node)

\* C9: in a single-output convertor, when the output position is a name
\* matching no header or an integer greater than or equal to the column
\* count, the step does not fail and the output column becomes the last
\* column of the header and of each data row.
C9_Case ==
    /\ kind = "acopy"
    /\ PastPreproc
    /\ ~GetInputColIdx(kind, params, array[1]).raised
    /\ "output_col_idx" \in params.keys
    /\ OutputRefPastEnd(params.output_col_idx, array[1])

C9_OutputColumnIsLast ==
    C9_Case =>
        /\ pc # "failed"
        /\ conv.output_col_name =
              (IF "output_col_name" \in params.keys THEN params.output_col_name
               ELSE PyGet(array[1], conv.input_col_idx))
        /\ out # <<>> =>
              /\ Last(out[1]) = conv.output_col_name
              /\ Len(out[1]) = Len(array[1]) + (IF conv.del_col = None THEN 1 ELSE 0)
        /\ \A j \in 2..Len(out) :
              LET rows == array[outSrc[j] + 1]
              IN  /\ Len(out[j]) = Len(out[1])
                  /\ Last(out[j]) =
                        (IF IONeedValue(conv, rows) THEN IOProcessConvertor(conv, rows)
                         ELSE PyGet(rows, conv.del_col))
                  /\ conv.del_col = None =>
                        SubSeq(out[j], 1, Len(rows)) = rows

C9_Witness ==
    /\ C9_Case
    /\ pc = "done"
    /\ params.output_col_idx = StrRef("zz")
    /\ "output_col_name" \in params.keys
    /\ params.output_col_name = "n"
    /\ Len(array[1]) = MaxCols
    /\ Len(out) = MaxRows + 1
    /\ Last(out[1]) = "n"

\* The positions before p whose row has as many fields as the header
\* recorded during preproc.
WellFormed(pos) == Len(array[pos + 1]) = data.num_of_columns
WellFormedBefore(p) == SelectSeq(Positions(p - 1), WellFormed)

\* C10: a data row whose field count differs from the header length
\* recorded during preproc is not passed to process_record and does not
\* appear in the output, and every later well-formed row is still
\* processed.
C10_MalformedRowsSkipped ==
    pc \in {"records", "done"} =>
        /\ \A pos \in 1..(Len(array) - 1) :
              ~WellFormed(pos) => pos \notin Range(processed) /\ pos \notin Range(outSrc)
        /\ processed = WellFormedBefore(current)
        /\ outSrc = <<0>> \o processed
        /\ Len(out) = Len(outSrc)
        /\ pc = "done" => current = Len(array)

C10_Witness ==
    /\ pc = "done"
    /\ Len(array) = 3
    /\ ~WellFormed(1)
    /\ WellFormed(2)
    /\ processed = <<2>>
    /\ Len(out) = 2

\* ------------------------------------------------ rows left out and kept
\* The rows of out that come from the input row at position j, and whether
\* the row at j went through process_record without an exception.
OutOf(j) == {i \in 1..Len(out) : outSrc[i] = j}
Completed(j) ==
    /\ \E i \in 1..Len(processed) : processed[i] = j
    /\ ~(pc = "failed" /\ failedIn = "record" /\ Last(processed) = j)
Returned(j, v) == \E i \in 1..Len(called) : called[i] = [pos |-> j, ret |-> v]

\* The column of out that holds the convertor's output column.
OutputColumn == PyIndex(out[1], conv.output_col_name)

\* C11: in a single-output convertor (attribute copy, key generation) a row
\* that went through process_record is missing from the output exactly when
\* process_convertor was called for it and returned False; when the value
\* function returned an empty string, zero or None, the output has a row
\* for that input row, with that value in the output column.
C11_OmittedExactlyOnFalse ==
    kind \in {"acopy", "generate_pk"} =>
        \A j \in 1..(Len(array) - 1) :
            Completed(j) =>
                /\ (OutOf(j) = {}) <=> Returned(j, PyFalse)
                /\ \A v \in {"", PyZero, NoneStr} :
                      Returned(j, v) =>
                          \E i \in OutOf(j) : PyGet(out[i], OutputColumn) = v

\* A finished attribute copy in which the value function returned False for
\* one row, which is left out, and zero for another, which is kept.
C11_Witness ==
    /\ pc = "done"
    /\ kind = "acopy"
    /\ \E j, k \in 1..(Len(array) - 1) :
          /\ Returned(j, PyFalse) /\ OutOf(j) = {}
          /\ Returned(k, PyZero) /\ OutOf(k) # {}

\* ------------------------------------------------- overwrite switched off
\* An attribute copy into an existing column with overwrite = false, and
\* the destination cell of the input row at position j.
C12_Case ==
    /\ kind = "acopy"
    /\ "overwrite" \in params.keys /\ ~params.overwrite
    /\ PyIn(array[1], params.output_col_name)
Destination(j) == PyGet(array[j + 1], PyIndex(array[1], params.output_col_name))

\* C12: in a single-output convertor run with overwrite = false on an
\* existing destination column, a row whose destination is not empty gives
\* one output row with the old value in the output column and
\* process_convertor is not called for it; for a row whose destination is
\* empty process_convertor is called once, on that row, and what it returns
\* is the value in the output column of the row's output row (a returned
\* False leaves the row out instead).
C12_KeepsNonEmptyDestination ==
    C12_Case =>
        \A j \in 1..(Len(array) - 1) :
            Completed(j) =>
                LET calls == {i \in 1..Len(called) : called[i].pos = j}
                IN  IF Destination(j) # ""
                    THEN /\ calls = {}
                         /\ Cardinality(OutOf(j)) = 1
                         /\ \A i \in OutOf(j) :
                               PyGet(out[i], OutputColumn) = Destination(j)
                    ELSE /\ Cardinality(calls) = 1
                         /\ \A c \in calls :
                               /\ called[c].ret = IOProcessConvertor(conv, array[j + 1])
                               /\ called[c].ret # PyFalse =>
                                     /\ Cardinality(OutOf(j)) = 1
                                     /\ \A i \in OutOf(j) :
                                           PyGet(out[i], OutputColumn) = called[c].ret

\* A finished copy in which one row kept its destination "y" without a call
\* and another row, whose destination was empty, received the copied "p".
C12_Witness ==
    /\ C12_Case
    /\ pc = "done"
    /\ \E j, k \in 1..(Len(array) - 1) :
          /\ Destination(j) = "y" /\ ~Returned(j, PyGet(array[j + 1], 0))
          /\ \E i \in OutOf(j) : PyGet(out[i], OutputColumn) = "y"
          /\ Destination(k) = "" /\ Returned(k, "p")
          /\ \E i \in OutOf(k) : PyGet(out[i], OutputColumn) = "p"

\* ------------------------------------- several outputs, overwrite = false
C13_Case ==
    /\ kind = "geocoder_municipality"
    /\ ~GetOverwrite(kind, params)
    /\ pc \in {"records", "done"}

\* C13: in a multi-output convertor with overwrite = false,
\* process_convertor is called at most once for a row, and it is called
\* exactly when one of the row's destination slots is empty (a destination
\* that is a new column counts as empty); in the row's output row every
\* destination that was not empty holds its old value and every empty one
\* holds the element of the returned vector at the same position.
C13_OnlyEmptySlotsRecomputed ==
    C13_Case =>
        \A j \in 1..(Len(array) - 1) :
            Completed(j) =>
                LET old == IOsOldValues(conv, array[j + 1])
                    slots == 1..Len(old)
                    calls == {i \in 1..Len(called) : called[i].pos = j}
                IN  /\ Cardinality(calls) <= 1
                    /\ (calls # {}) <=> (\E s \in slots : old[s] = "")
                    /\ Cardinality(OutOf(j)) = 1
                    /\ \A i \in OutOf(j) : \A s \in slots :
                          LET cell == PyGet(out[i], PyIndex(out[1], conv.output_col_names[s]))
                          IN  IF old[s] # "" THEN cell = old[s]
                              ELSE \A c \in calls : cell = called[c].ret[s]

\* A finished step with two existing destinations in which a row with one
\* empty slot kept "y" in the other and took the second element of the
\* vector, and a row with no empty slot was written without a call.
C13_Witness ==
    /\ C13_Case
    /\ pc = "done"
    /\ conv.output_col_names = <<"b", "c">>
    /\ \E j, k \in 1..(Len(array) - 1) :
          /\ IOsOldValues(conv, array[j + 1]) = <<"y", "">>
          /\ \E c \in 1..Len(called) :
                /\ called[c].pos = j
                /\ called[c].ret = <<"City", "Ward">>
                /\ \E i \in OutOf(j) : out[i] = <<"p", "y", "Ward">>
          /\ IOsOldValues(conv, array[k + 1]) = <<"y", "z">>
          /\ \A c \in 1..Len(called) : called[c].pos # k
          /\ \E i \in OutOf(k) : out[i] = <<"p", "y", "z">>

\* ------------------------------------------------------- order of output
\* The pieces joined again with the separator between them.
RECURSIVE JoinChars(_, _)
JoinChars(pieces, sep) ==
    IF Len(pieces) = 0 THEN <<>>
    ELSE IF Len(pieces) = 1 THEN Chars[pieces[1]]
    ELSE Chars[pieces[1]] \o sep \o JoinChars(Tail(pieces), sep)

\* C14: the rows of the output follow the order of the input rows they come
\* from, so the rows that come from one input row are consecutive and stand
\* before those of any later input row; and split_row emits the rows it
\* derives from one input row in derivation order: each is the input row
\* with the split column replaced by one piece, no piece holds the
\* separator, and the pieces in output order, joined by the separator, give
\* the input value back.
C14_OutputFollowsInputOrder ==
    /\ \A i, k \in 1..Len(out) : i < k => outSrc[i] <= outSrc[k]
    /\ kind = "split_row" =>
          \A j \in 1..(Len(array) - 1) :
              Completed(j) =>
                  LET first == CHOOSE i \in OutOf(j) : \A k \in OutOf(j) : i <= k
                      n == Cardinality(OutOf(j))
                      col == conv.input_col_idx + 1
                      pieces == [k \in 1..n |-> out[first + k - 1][col]]
                      sep == Chars[conv.re_separator]
                  IN  /\ n >= 1
                      /\ OutOf(j) = first..(first + n - 1)
                      /\ \A k \in 1..n :
                            /\ out[first + k - 1] =
                                   [array[j + 1] EXCEPT ![col] = pieces[k]]
                            /\ \A at \in 0..Len(Chars[pieces[k]]) :
                                   ~FindAt(sep, Chars[pieces[k]], at)
                      /\ JoinChars(pieces, sep) = Chars[array[j + 1][col]]

\* A finished split_row step that made two rows of "p,q" and then two rows
\* of "q,p".
C14_Witness ==
    /\ kind = "split_row"
    /\ pc = "done"
    /\ outSrc = <<0, 1, 1, 2, 2>>
    /\ out = << <<"a", "b">>, <<"p", "r1c2">>, <<"q", "r1c2">>,
                <<"q", "r2c2">>, <<"p", "r2c2">> >>

\* ---------------------------------------------------------- row selection
\* C15: for the three row-selection convertors (match, contains, pattern)
\* the output holds at most as many data rows as the input, and every data
\* row of the output is, field for field, the input row it comes from, no
\* input row being put out twice.
C15_SelectedRowsAreInputRows ==
    (kind \in SelectKinds /\ Len(out) >= 1) =>
        /\ Len(out) - 1 <= Len(array) - 1
        /\ \A i \in 2..Len(out) :
              /\ outSrc[i] \in 1..(Len(array) - 1)
              /\ out[i] = array[outSrc[i] + 1]
              /\ \A k \in 2..Len(out) : outSrc[k] = outSrc[i] => k = i

\* A finished selection that kept one of two rows.
C15_Witness ==
    /\ kind \in SelectKinds
    /\ pc = "done"
    /\ Len(array) = 3
    /\ Len(out) = 2
    /\ out[2] = array[3]

\* ------------------------------------------------- operands no number
\* The input row at position j has an operand calc cannot read as a number.
NotANumber(j) ==
    \/ ~IsNumber(PyGet(array[j + 1], conv.attr1))
    \/ ~IsNumber(PyGet(array[j + 1], conv.attr2))
C16_Case(j) ==
    /\ kind = "calc"
    /\ \E i \in 1..Len(processed) : processed[i] = j
    /\ NotANumber(j)
AllProcessed == processed = [i \in 1..(Len(array) - 1) |-> i]

\* C16 as stated: a data row with an operand of calc that is not a number
\* is left out of the output, the step does not abort on it, and the later
\* rows are still processed.
C16_NonNumberRowLeftOut ==
    \A j \in 1..(Len(array) - 1) :
        C16_Case(j) =>
            /\ Completed(j)
            /\ OutOf(j) = {}
            /\ pc = "done" => AllProcessed

\* C16, amended: a data row with an operand of calc that is not a number
\* does not abort the step and is not left out: it gives one output row,
\* built as for any other row with None in place of the result (with
\* delete_col off, the input row followed by None); the loop goes on, and a
\* step that ends normally has processed every row.
C16_NonNumberRowKeptWithNone ==
    \A j \in 1..(Len(array) - 1) :
        C16_Case(j) =>
            /\ Completed(j)
            /\ Cardinality(OutOf(j)) = 1
            /\ \A i \in OutOf(j) :
                  /\ out[i] = CalcDeleteCols(conv, Append(array[j + 1], NoneStr))
                  /\ ~conv.delete_col => out[i] = Append(array[j + 1], NoneStr)
            /\ pc = "done" => AllProcessed

\* A finished sum over "x", "2" and then "1", "2": the first row is
\* in the output with None, the second with 3.0.
C16_Witness ==
    /\ kind = "calc"
    /\ pc = "done"
    /\ out = << <<"a", "b", "c", "n">>, <<"x", "2", "r1c3", NoneStr>>,
              <<"1", "2", "r2c3", "3.0">> >>

\* ------------------------------------------------------ keys that repeat
\* The seed of the input row at position j; whether an earlier row has the
\* same seed, or another seed with the same key.
Seed(j) == PyGet(array[j + 1], conv.input_col_idx)
RepeatsSeed(j) == \E i \in 1..(j - 1) : Seed(i) = Seed(j)
CollidesWithOtherSeed(j) ==
    \E i \in 1..(j - 1) : Seed(i) # Seed(j) /\ Hash[Seed(i)] = Hash[Seed(j)]
AbortedAt(j) ==
    /\ pc = "failed" /\ failedIn = "record" /\ error = "ValueError"
    /\ Last(processed) = j
RaiseMode == conv.error_if_not_unique
SkipMode == ~conv.error_if_not_unique /\ conv.skip_if_not_unique
C17_Case(j) ==
    /\ kind = "generate_pk"
    /\ \E i \in 1..Len(processed) : processed[i] = j
KeysDistinct ==
    \A i, k \in 2..Len(out) :
        i # k => PyGet(out[i], OutputColumn) # PyGet(out[k], OutputColumn)

C18_TempFileGoneAfterFailure ==
    (fs.at = "raised" /\ ~fs.named) => fs.file # "exists"

\* C19: when a step of Table.convert has ended, by returning or because
\* the convertor raised after the Context was entered, the input collection
\* and the output collection of the Context are both closed.
C19_CollectionsClosedAtEnd ==
    (fs.at \in {"returned", "raised", "deleted"} /\ failedIn \notin {"init", "lookup"}) =>
        ~fs.inOpen /\ ~fs.outOpen

\* convert has raised on a data row, after rows were written, and both
\* collections are closed.
C19_Witness ==
    /\ fs.at = "raised"
    /\ failedIn = "record"
    /\ Len(out) >= 1
    /\ ~fs.inOpen /\ ~fs.outOpen

\* C20 as stated: the result file of a convert without output destination
\* is deleted when the Table convert returned is destroyed, and a result
\* file the caller named is never deleted.
C20_TempResultDeletedWithTable ==
    /\ (fs.at = "deleted" /\ ~fs.named) => fs.file = "removed"
    /\ fs.named => fs.file # "removed"

\* ------------------------------------------------ the registry on its own
RegistryInit ==
    /\ LibIdle
    /\ StepIdle /\ ReorderIdle

RegisterConvertor ==
    /\ registry.ops < MaxOps
    /\ \E c \in Classes, selectable \in BOOLEAN :
          registry' = [register_convertor(registry, c, selectable) EXCEPT
                          !.ops = @ + 1, !.last = <<c, selectable>>]
    /\ UNCHANGED <<stepVars, rvars, mapper, dates, chain>>

UseExtraConvertors ==
    /\ registry.ops < MaxOps
    /\ registry' = [register(registry) EXCEPT !.ops = @ + 1, !.last = <<>>]
    /\ UNCHANGED <<stepVars, rvars, mapper, dates, chain>>

ConvertorFindBy ==
    /\ registry.ops < MaxOps
    /\ \E name \in Keys :
          registry' = [convertor_find_by(registry, name) EXCEPT
                          !.ops = @ + 1, !.last = <<>>]
    /\ UNCHANGED <<stepVars, rvars, mapper, dates, chain>>

NextRegistry == RegisterConvertor \/ UseExtraConvertors \/ ConvertorFindBy

SpecRegistry == RegistryInit /\ [][NextRegistry]_vars

\* C21: registration is idempotent. A registration binds the name to the
\* class just registered, and registering again the convertor that was
\* registered by the previous call leaves the name lookup and the listing of
\* convertors (convertor_all, convertor_keys) as they were after the first.
C21_RegistrationIdempotent ==
    [][registry'.last # <<>> =>
          /\ registry'.CONVERTOR_DICT[KeyOf[registry'.last[1]]] = registry'.last[1]
          /\ registry.last = registry'.last =>
                /\ registry'.CONVERTOR_DICT = registry.CONVERTOR_DICT
                /\ convertor_all(registry') = convertor_all(registry)
                /\ convertor_keys(registry') = convertor_keys(registry)]_vars

\* C22: the lazy extension scan runs at most once per process. However many
\* names are looked up, known or unknown, convertor_find_by has started
\* extras.register() at most once.
C22_LazyScanAtMostOnce == registry.lazy <= 1

\* ------------------------------------------------- the mapper on its own
Thresholds == {0, 20, 40, 100}

MappingInit ==
    /\ \E g0 \in SeqsUpTo(Names0, MaxItems) \ {<<>>},
          g1 \in SeqsUpTo(Names1, MaxItems) \ {<<>>},
          c \in CosTables, th \in Thresholds :
          mapper = [NoMapper EXCEPT !.pc = "new", !.given0 = g0, !.given1 = g1,
                                    !.cos = c, !.threshold = th]
    /\ registry = NoRegistry /\ dates = NoDates /\ chain = NoChain
    /\ StepIdle /\ ReorderIdle

\* pair = ItemsPair(given0, given1); pair.mapping()
Mapped(m, pairs) ==
    LET items0 == ItemsOf(m.given0)
        items1 == ItemsOf(m.given1)
    IN [m EXCEPT !.pairs = pairs,
                 !.results = Mapping(items0, items1,
                                     Mxsim(items0, items1, m.cos), pairs)]
MunkresOf(m) ==
    Munkres(Mxsim(ItemsOf(m.given0), ItemsOf(m.given1), m.cos),
            Dim(m.given0, m.given1))

ItemsPairMapping ==
    /\ mapper.pc = "new"
    /\ \E pairs \in MunkresOf(mapper) :
          mapper' = [Mapped(mapper, pairs) EXCEPT !.pc = "mapping"]
    /\ UNCHANGED <<stepVars, rvars, registry, dates, chain>>

TableMappingWithHeaders ==
    /\ mapper.pc = "new"
    /\ \E pairs \in MunkresOf(mapper) :
          LET m == Mapped(mapper, pairs)
          IN mapper' = [m EXCEPT !.pc = "mapping_with_headers",
                           !.chosen = MappingWithHeaders(m.results, m.threshold)]
    /\ UNCHANGED <<stepVars, rvars, registry, dates, chain>>

AutoMappingProcessHeader ==
    /\ mapper.pc = "new"
    /\ \E pairs \in MunkresOf(mapper) :
          LET m == Mapped(mapper, pairs)
          IN mapper' = [m EXCEPT !.pc = "auto_mapping_cols",
                           !.chosen = AutoMapping(m.results, m.threshold)]
    /\ UNCHANGED <<stepVars, rvars, registry, dates, chain>>

NextMapping ==
    ItemsPairMapping \/ TableMappingWithHeaders \/ AutoMappingProcessHeader

SpecMapping == MappingInit /\ [][NextMapping]_vars

Count(s, v) == Cardinality({k \in DOMAIN s : s[k] = v})
FirstOf(results) == [k \in DOMAIN results |-> results[k].a]
SecondOf(results) == [k \in DOMAIN results |-> results[k].b]

\* C23: mapping() between a list A of m headings and a list B of n headings
\* returns exactly max(m, n) pairs; every element of A occurs exactly once
\* as a first component and every element of B exactly once as a second
\* component, the surplus being paired with None; every score is in [0, 1].
C23_MappingPairsEveryElementOnce ==
    mapper.pc \notin {"idle", "new"} =>
        /\ Len(mapper.results) = Max(Len(mapper.given0), Len(mapper.given1))
        /\ \A v \in Names0 \cup {"empty"} :
              Count(FirstOf(mapper.results), v) = Count(mapper.given0, v)
        /\ \A v \in Names1 \cup {"empty"} :
              Count(SecondOf(mapper.results), v) = Count(mapper.given1, v)
        /\ \A k \in DOMAIN mapper.results :
              mapper.results[k].score \in 0..Scale

\* C24: after the assignment is computed, every caller treats a pair of two
\* headings as unmatched exactly when score * 100 < threshold; the pairs are
\* an optimal assignment of the similarity matrix, whatever the threshold.
C24_UnmatchedExactlyBelowThreshold ==
    mapper.pc \in {"mapping_with_headers", "auto_mapping_cols"} =>
        /\ mapper.pairs \in MunkresOf(mapper)
        /\ \A k \in DOMAIN mapper.chosen :
              mapper.results[k].b # NoneStr =>
                 (mapper.chosen[k] = NoneStr <=>
                    BelowPercent(mapper.results[k].score, mapper.threshold))

\* ---------------------------------------------- date extraction on its own
\* The dates of the text: the k-th has the groups of one of these shapes.
Shapes ==
    {{Year, Month, Day}, {Month, Day}, {Hour, Minute},
     {Year, Month, Day, Hour, Minute}, Fields}
GroupValue(k, f, day) ==
    CASE f = Year -> 2022 + k
      [] f = Month -> k
      [] f = Day -> day
      [] f = Hour -> 3 + k
      [] f = Minute -> 14 + k
      [] OTHER -> 6 + k
Matches ==
    UNION {[1..n -> Shapes \X {19, 31}] : n \in 0..MaxDates}
MatchOf(k, shape, day) ==
    [f \in Fields |-> IF f \in shape THEN IntRef(GroupValue(k, f, day)) ELSE NoRef]
Formats ==
    {<<"%Y", "%m", "%d">>, <<"%m", "%d">>, <<"%Y">>,
     <<"%Y", "%m", "%d", "%H", "%M">>, <<"%H", "%M", "%S">>}
Defaults == {<<>>, <<2023>>}

DatesInit ==
    /\ \E ms \in Matches, format \in Formats, default \in Defaults :
          dates = [NoDates EXCEPT
                      !.pc = "new",
                      !.matches = [k \in DOMAIN ms |-> MatchOf(k, ms[k][1], ms[k][2])],
                      !.format = format, !.default = default]
    /\ registry = NoRegistry /\ mapper = NoMapper /\ chain = NoChain
    /\ StepIdle /\ ReorderIdle

Extracted(step, used) ==
    LET r == ExtractProcessConvertor(dates.matches, dates.format, dates.default,
                                     used)
    IN [dates EXCEPT !.pc = step, !.raised = r.raised, !.result = r.result]

\* date_extract, with a format of date specifiers
DateExtract ==
    /\ dates.pc = "new"
    /\ \A k \in DOMAIN dates.format : FieldOf[dates.format[k]] <= Day
    /\ dates' = Extracted("date_extract", Year..Day)
    /\ UNCHANGED <<stepVars, rvars, registry, mapper, chain>>

DatetimeExtract ==
    /\ dates.pc = "new"
    /\ dates' = Extracted("datetime_extract", Fields)
    /\ UNCHANGED <<stepVars, rvars, registry, mapper, chain>>

NextDates == DateExtract \/ DatetimeExtract

SpecDates == DatesInit /\ [][NextDates]_vars

\* The fields the step works with, and the candidates that have every field
\* the format mentions and name a day that exists.
UsedBy(step) == IF step = "date_extract" THEN Year..Day ELSE Fields
Satisfying ==
    {k \in DOMAIN dates.matches :
        /\ \A j \in DOMAIN dates.format :
              dates.matches[k][FieldOf[dates.format[j]]].t = "int"
        /\ dates.matches[k][Day].t = "int" /\ dates.matches[k][Month].t = "int"
              => dates.matches[k][Day].n <= DaysIn(dates.matches[k][Month].n)}
FirstSatisfying == CHOOSE k \in Satisfying : \A j \in Satisfying : k <= j

\* C25: the candidates of a text are tried in order; one lacking a field the
\* format mentions is abandoned and the next is tried; the result is the
\* first satisfying candidate formatted, or the default when none satisfies;
\* a missing field never aborts the step.
C25_FirstSatisfyingCandidateOrDefault ==
    dates.pc \in {"date_extract", "datetime_extract"} =>
        /\ dates.raised = ""
        /\ dates.result =
              IF Satisfying = {} THEN dates.default
              ELSE Strftime(dates.format, dates.matches[FirstSatisfying],
                            {f \in UsedBy(dates.pc) :
                                dates.matches[FirstSatisfying][f].t = "int"})

\* ------------------------------------------- columns of header and rows
\* The names the step writes, and the input columns it keeps: position k of
\* the output header holds the name of input column c, which is not a name
\* the step writes and is not repeated in the input header.
OutputNames ==
    IF kind = "geocoder_municipality" THEN Range(conv.output_col_names)
    ELSE {conv.output_col_name}
Keeps(k, c) ==
    /\ out[1][k] = array[1][c]
    /\ array[1][c] \notin OutputNames
    /\ \A d \in 1..Len(array[1]) : array[1][d] = array[1][c] => d = c
ColumnRewriting == {"acopy", "generate_pk", "geocoder_municipality", "calc"}

\* C29: in a column-rewriting convertor the header and each data row undergo
\* the same deletions and insertions: every emitted data row has as many
\* fields as the emitted header, and an input column kept at position k of
\* the output header is at position k of every output row.
C29_RowsFollowHeader ==
    kind \in ColumnRewriting /\ Len(out) >= 1 =>
        \A i \in 2..Len(out) :
            /\ Len(out[i]) = Len(out[1])
            /\ \A k \in 1..Len(out[1]), c \in 1..Len(array[1]) :
                  Keeps(k, c) => out[i][k] = array[outSrc[i] + 1][c]

\* ------------------------------------------------ columns left untouched
\* The fields of a row at the positions, in order, where the header has a
\* name the step does not write.
RECURSIVE Untouched(_, _, _)
Untouched(header, row, names) ==
    IF header = <<>> \/ row = <<>> THEN <<>>
    ELSE (IF Head(header) \in names THEN <<>> ELSE <<Head(row)>>)
         \o Untouched(Tail(header), Tail(row), names)

\* C30: a single-output or multi-output convertor changes only its
\* destination columns: the input columns whose name is not an output name
\* are in the output exactly once, in their original order and with their
\* values unchanged, also when the output names repeat a name or the header
\* repeats one.
C30_OtherColumnsUntouched ==
    kind \in {"acopy", "generate_pk", "geocoder_municipality"} /\ Len(out) >= 1 =>
        /\ Untouched(out[1], out[1], OutputNames)
              = Untouched(array[1], array[1], OutputNames)
        /\ \A i \in 2..Len(out) :
              Untouched(out[1], out[i], OutputNames)
                 = Untouched(array[1], array[outSrc[i] + 1], OutputNames)

\* ------------------------------------------------ the column convertors
\* Steps of rename_col, move_col and split_col, and the same step applied
\* again to the table it produced (table = table.convert(...), twice).
ColKinds == {"rename_col", "move_col", "split_col"}
ColArrays(k) == IF k = "split_col" THEN RowArrays(k) ELSE Arrays
ColRefs == {IntRef(0), IntRef(1), IntRef(-1), StrRef("a"), StrRef("b"),
            StrRef("zz"), StrRef("1")}
MoveToRefs == {IntRef(0), IntRef(1), IntRef(2), IntRef(MaxCols + 6),
               StrRef("a"), StrRef("b"), StrRef("c"), StrRef("zz")}
ColParams ==
    [k \in ColKinds |->
        CASE k = "rename_col" ->
                {ParamMap({"input_col_idx"} \cup opt, i, n, NoRef, <<>>, TRUE) :
                    opt \in SUBSET {"output_col_name"}, i \in ColRefs, n \in OutNames}
          [] k = "move_col" ->
                {ParamMap({"input_col_idx"} \cup opt, i, NoneStr, o, <<>>, TRUE) :
                    opt \in SUBSET {"output_col_idx"},
                    i \in {IntRef(0), IntRef(1), IntRef(-1), StrRef("b"), StrRef("zz")},
                    o \in MoveToRefs}
          [] k = "split_col" ->
                {Supplied(ParamMap({"input_col_idx", "output_col_names"} \cup opt,
                                   i, NoneStr, o, l, TRUE),
                          {"input_col_idx", "output_col_names", "separator"} \cup opt,
                          [NoMore EXCEPT !.separator = sep]) :
                    opt \in SUBSET {"output_col_idx"},
                    i \in {StrRef("a"), StrRef("zz")},
                    o \in {IntRef(0), IntRef(1), StrRef("b"), IntRef(MaxCols + 6)},
                    l \in {<<"m">>, <<"m", "n">>}, sep \in {",", ";"}}]

ColsInit ==
    /\ kind \in ColKinds
    /\ array \in ColArrays(kind)
    /\ params \in ColParams[kind]
    /\ current = 0 /\ callerReads = 0 /\ geocoderOk = TRUE /\ warned = {}
    /\ data = NoData /\ conv = NoConv /\ out = <<>> /\ pc = "new"
    /\ error = "" /\ failedIn = "" /\ probe = NoProbe /\ hdrGiven = <<>>
    /\ checked = <<>> /\ processed = <<>> /\ outSrc = <<>> /\ called = <<>>
    /\ fs = NoTable
    /\ ReorderIdle /\ LibIdle

\* The table a finished step produced is the input of the same step, with
\* the same parameters, over a new Context.
ConvertAgain ==
    /\ pc = "done"
    /\ chain.n < MaxAgain
    /\ chain' = [n |-> chain.n + 1, outs |-> Append(chain.outs, out)]
    /\ array' = out
    /\ current' = 0 /\ warned' = {} /\ data' = NoData /\ conv' = NoConv
    /\ out' = <<>> /\ pc' = "new" /\ NoFail /\ hdrGiven' = <<>>
    /\ checked' = <<>> /\ processed' = <<>> /\ outSrc' = <<>> /\ called' = <<>>
    /\ UNCHANGED <<callerReads, kind, params, geocoderOk, probe, fs, rvars,
                   registry, mapper, dates>>

NextCols == Next \/ ConvertAgain

SpecCols == ColsInit /\ [][NextCols]_vars

\* The list with the column at i taken out and put back immediately before
\* the column that was at p, or at the end when there is no p.
MovedBefore(list, i, p) ==
    IF p = None THEN Append(PyPop(list, i), PyGet(list, i))
    ELSE IF p = i THEN list
    ELSE PyInsert(PyPop(list, i), IF p > i THEN p - 1 ELSE p, PyGet(list, i))

\* The position of the moved column and of the destination the caller gave
\* (None when it is omitted), both counted from the front of the header.
MoveFrom ==
    IF conv.input_col_idx < 0 THEN Len(array[1]) + conv.input_col_idx
    ELSE conv.input_col_idx
MoveTo ==
    IF "output_col_idx" \in params.keys
    THEN GetColumnNumber(params.output_col_idx, array[1], TRUE).value
    ELSE None

\* C27: move_col puts the moved column immediately before the column that
\* was at the destination p, for every existing p, the first column (p = 0)
\* included; with the destination omitted the column goes to the end; the
\* other columns keep their order.  This holds of the header and of every
\* row written.
C27_MovedBeforeDestination ==
    (kind = "move_col" /\ Len(out) >= 1 /\ MoveTo # -1) =>
        \A k \in 1..Len(out) :
            out[k] = MovedBefore(array[outSrc[k] + 1], MoveFrom, MoveTo)

\* C28: split_col with output_col_idx omitted writes the input header
\* followed by output_col_names, and for every row the input row followed
\* by exactly as many values as there are names, those past the parts the
\* separator yields being empty strings.
C28_SplitAppendsNamedColumns ==
    (kind = "split_col" /\ "output_col_idx" \notin params.keys /\ Len(out) >= 1) =>
        /\ out[1] = array[1] \o params.output_col_names
        /\ \A k \in 2..Len(out) :
              LET row == array[outSrc[k] + 1]
                  n == Len(params.output_col_names)
                  yields == Len(ReSplit(params.more.separator,
                                        PyGet(row, conv.input_col_idx)))
              IN  /\ Len(out[k]) = Len(row) + n
                  /\ SubSeq(out[k], 1, Len(row)) = row
                  /\ \A j \in (yields + 1)..n : out[k][Len(row) + j] = ""

\* The table the previous application of the step produced.
Before == chain.outs[chain.n]
\* The column is given by its position: an integer, or a string of digits
\* that is not a column name.
ByPosition(ref, headers) ==
    ref.t = "int" \/ (IsDigits(ref.s) /\ ~PyIn(headers, ref.s))

====
